---- MODULE Spec2Model ----
(***************************************************************************)
(* Agent Task subsystem of the GitHub CLI: the Copilot API client's        *)
(* session operations (pkg/cmd/agent-task/capi/sessions.go), the gate of   *)
(* the agent-task command (agent_task.go), the create command              *)
(* (create/create.go), the log follower and renderer (shared/log.go), the  *)
(* view command (view/view.go), the list command (list/list.go) and the    *)
(* request URLs of the client (capi/sessions.go, capi/job.go).             *)
(*                                                                         *)
(* Strings that the code builds or compares character by character (node   *)
(* IDs, decimal database IDs) are sequences of one-character strings.      *)
(* An error value is the chain of errors it wraps, outermost first; the    *)
(* nil error is the empty chain.                                           *)
(***************************************************************************)
EXTENDS Integers, Sequences, FiniteSets, TLC

\* ------------------------------------------------------------------ bounds
\* Longest server-side session list.
MaxTotal == 4
\* Largest limit a caller passes.
MaxLimit == 3
\* Largest value of defaultSessionsPerPage (tests lower it to force paging).
MaxPageSize == 2
\* Most lines of a session log.
MaxRecords == 3
\* Most fetches of one run of Follow.
MaxFetches == 4
\* Largest retry cap of a polling policy the tests give.
MaxRetries == 3
\* Lines of a log handed to Render in one piece.
MaxLines == 3
\* Most sessions a listing for a pull request returns.
MaxSessions == 3
\* Most characters of a path after the root of the working copies.
MaxPathLen == 4

\* ------------------------------------------------------- values of fields
UserIDs == {0, 1}
RepoIDs == {0, 1000}
ResourceTypes == {"pull", ""}
ResourceIDs == {0, 2000}
Owners == {"", "OWNER"}
Repos == {"", "REPO"}
HTTPStatuses == {200, 204, 403, 404, 500}

Nil == [nil |-> TRUE]
NoError == <<>>
ErrSessionNotFound == "not found"

\* errors.Is: the target occurs somewhere in the chain of wrapped errors.
ErrorsIs(e, target) == \E i \in DOMAIN e : e[i] = target

\* fmt.Errorf("...: %w", err)
Wrap(msg, e) == <<msg>> \o e

Min(a, b) == IF a < b THEN a ELSE b

\* ------------------------------------------------------------ conversions
DigitChars == <<"0", "1", "2", "3", "4", "5", "6", "7", "8", "9">>

RECURSIVE FormatUint(_)
FormatUint(n) ==
    IF n < 10 THEN <<DigitChars[n + 1]>>
    ELSE FormatUint(n \div 10) \o <<DigitChars[(n % 10) + 1]>>

\* Variant: the digits come out least significant first.
RECURSIVE FormatUintReversed(_)
FormatUintReversed(n) ==
    IF n < 10 THEN <<DigitChars[n + 1]>>
    ELSE <<DigitChars[(n % 10) + 1]>> \o FormatUintReversed(n \div 10)

FormatIntReversed(i) ==
    IF i < 0 THEN <<"-">> \o FormatUintReversed(-i) ELSE FormatUintReversed(i)

\* strconv.FormatInt(i, 10)
FormatInt(i) == IF i < 0 THEN <<"-">> \o FormatUint(-i) ELSE FormatUint(i)

\* Big-endian bytes of n, width bytes wide.
RECURSIVE BigEndian(_, _)
BigEndian(n, width) ==
    IF width = 0 THEN <<>>
    ELSE BigEndian(n \div 256, width - 1) \o <<n % 256>>

\* msgpack Encoder.EncodeInt with UseCompactInts(true), non-negative branch
\* (EncodeUint): the shortest of fixint, uint8, uint16, uint32, uint64.
EncodeInt(n) ==
    IF n <= 127 THEN <<n>>
    ELSE IF n <= 255 THEN <<204>> \o BigEndian(n, 1)
    ELSE IF n <= 65535 THEN <<205>> \o BigEndian(n, 2)
    ELSE IF n \div 65536 <= 65535 THEN <<206>> \o BigEndian(n, 4)
    ELSE <<207>> \o BigEndian(n, 8)

RECURSIVE EncodeInts(_)
EncodeInts(parts) ==
    IF parts = <<>> THEN <<>>
    ELSE EncodeInt(Head(parts)) \o EncodeInts(Tail(parts))

\* msgpack encoding of a []int64 of fewer than 16 elements: fixarray header.
MsgpackEncode(parts) == <<144 + Len(parts)>> \o EncodeInts(parts)

Base64URLChars ==
    <<"A", "B", "C", "D", "E", "F", "G", "H", "I", "J", "K", "L", "M",
      "N", "O", "P", "Q", "R", "S", "T", "U", "V", "W", "X", "Y", "Z",
      "a", "b", "c", "d", "e", "f", "g", "h", "i", "j", "k", "l", "m",
      "n", "o", "p", "q", "r", "s", "t", "u", "v", "w", "x", "y", "z",
      "0", "1", "2", "3", "4", "5", "6", "7", "8", "9", "-", "_">>

B64(v) == Base64URLChars[v + 1]

\* base64.RawURLEncoding.EncodeToString: 3 bytes to 4 characters, no padding.
RECURSIVE Base64RawURL(_)
Base64RawURL(bytes) ==
    IF Len(bytes) = 0 THEN <<>>
    ELSE IF Len(bytes) = 1 THEN
        <<B64(bytes[1] \div 4), B64((bytes[1] % 4) * 16)>>
    ELSE IF Len(bytes) = 2 THEN
        <<B64(bytes[1] \div 4),
          B64((bytes[1] % 4) * 16 + bytes[2] \div 16),
          B64((bytes[2] % 16) * 4)>>
    ELSE
        <<B64(bytes[1] \div 4),
          B64((bytes[1] % 4) * 16 + bytes[2] \div 16),
          B64((bytes[2] % 16) * 4 + bytes[3] \div 64),
          B64(bytes[3] % 64)>>
        \o Base64RawURL(SubSeq(bytes, 4, Len(bytes)))

generatePullRequestNodeID(repoID, pullRequestID) ==
    <<"P", "R", "_">> \o Base64RawURL(MsgpackEncode(<<0, repoID, pullRequestID>>))

generateUserNodeID(userID) ==
    <<"U", "_">> \o Base64RawURL(MsgpackEncode(<<0, userID>>))


\* ----------------------------------------------------------------- state
VARIABLES
    server,                 \* sessions the Copilot API holds, in listing order
    defaultSessionsPerPage, \* package variable; tests lower it
    pc,                     \* "idle", "paging", "getting", "hydrate", "done"
    op,                     \* operation in progress, "none" when idle
    args,                   \* arguments of the operation other than limit
    limit,
    pageSize,               \* local of the list operations
    page,                   \* loop variable of the list operations
    sessions,               \* raw sessions accumulated (local `sessions`)
    delivered,              \* number of sessions the server sent in list pages
    restCalls,              \* Copilot API requests issued by this call
    gqlCalls,               \* GraphQL queries issued by this call
    getStatus,              \* status code of the response to GetSession
    queryIDs,               \* the `ids` variable of the GraphQL query
    respNodes,              \* resp.Nodes of the GraphQL response
    gqlErr,                 \* error of the GraphQL query (local `err` of hydration)
    result,                 \* returned sessions; <<>> is nil
    err                     \* returned error

sessVars == <<server, defaultSessionsPerPage, pc, op, args, limit, pageSize,
              page, sessions, delivered, restCalls, gqlCalls, getStatus,
              queryIDs, respNodes, gqlErr, result, err>>

ListOps == {"ListSessionsForViewer", "ListSessionsForRepo", "ListSessionsByResourceID"}

NoArgs == [owner |-> "", repo |-> "", resourceType |-> "", resourceID |-> 0, id |-> <<>>]

\* session.ID of the i-th session of the server; IDs are unique.
SessionID(i) == <<"s", i>>

SessionValues ==
    [UserID : UserIDs, RepoID : RepoIDs, ResourceType : ResourceTypes, ResourceID : ResourceIDs]

\* raw `session` as decoded from the Copilot API (fields the client reads)
RawSession(i, v) ==
    [ID |-> SessionID(i), UserID |-> v.UserID, RepoID |-> v.RepoID,
     ResourceType |-> v.ResourceType, ResourceID |-> v.ResourceID]

\* Session lists a server can hold: up to MaxTotal sessions, the first with any
\* field values and the later ones sharing theirs (so every pair of field
\* values meets in a list, in both orders).
Servers ==
    {[i \in 1..n |-> RawSession(i, IF i = 1 THEN v ELSE w)] :
        n \in 0..MaxTotal, v \in SessionValues, w \in SessionValues}

\* The server's answer to page_number = p, page_size = size.
ServerPage(p, size) ==
    SubSeq(server, (p - 1) * size + 1, Min(p * size, Len(server)))

\* An HTTP exchange: the transport fails, or a response arrives with a status
\* code and a body that is valid JSON or not.
Responses == [netErr : BOOLEAN, StatusCode : HTTPStatuses, validJSON : BOOLEAN]

\* ------------------------------------------------------------- hydration
Contains(q, x) == \E i \in DOMAIN q : q[i] = x

\* First loop of hydrateSessionPullRequestsAndUsers: PR node IDs, deduplicated.
RECURSIVE CollectPRNodeIds(_, _)
CollectPRNodeIds(ss, acc) ==
    IF ss = <<>> THEN acc
    ELSE LET s == Head(ss)
             prNodeID == generatePullRequestNodeID(s.RepoID, s.ResourceID)
         IN CollectPRNodeIds(Tail(ss),
                IF s.ResourceType = "pull" /\ ~Contains(acc, prNodeID)
                THEN Append(acc, prNodeID) ELSE acc)

\* First loop of hydrateSessionPullRequestsAndUsers: user node IDs, deduplicated.
RECURSIVE CollectUserNodeIds(_, _)
CollectUserNodeIds(ss, acc) ==
    IF ss = <<>> THEN acc
    ELSE LET userNodeId == generateUserNodeID(Head(ss).UserID)
         IN CollectUserNodeIds(Tail(ss),
                IF ~Contains(acc, userNodeId) THEN Append(acc, userNodeId) ELSE acc)

\* ids := prNodeIds followed by userNodeIds
HydrationIDs(ss) == CollectPRNodeIds(ss, <<>>) \o CollectUserNodeIds(ss, <<>>)

\* The GraphQL server's rendering of a pull request's fullDatabaseId.
RECURSIVE ServerDecimal(_)
ServerDecimal(n) ==
    IF n < 10 THEN <<DigitChars[n + 1]>>
    ELSE ServerDecimal(n \div 10) \o <<DigitChars[(n % 10) + 1]>>

ZeroPullRequest == [ID |-> <<>>, FullDatabaseID |-> <<>>]
ZeroUser == [DatabaseID |-> 0]

\* What nodes(ids:) yields for an ID it cannot resolve: null, decoded into the
\* zero value of the node struct.
NullNode == [TypeName |-> "", PullRequest |-> ZeroPullRequest, User |-> ZeroUser]

\* Repositories, pull requests and users that can exist on the server: their
\* database IDs are positive.
RealPulls == {pair \in RepoIDs \X ResourceIDs : pair[1] > 0 /\ pair[2] > 0}
RealUsers == {u \in UserIDs : u > 0}

\* The node the GraphQL server holds under a node ID; null for an ID that
\* names nothing.
ServerNode(id) ==
    IF \E pair \in RealPulls : generatePullRequestNodeID(pair[1], pair[2]) = id
    THEN LET pair == CHOOSE pair \in RealPulls :
                         generatePullRequestNodeID(pair[1], pair[2]) = id
         IN [TypeName |-> "PullRequest",
             PullRequest |-> [ID |-> id, FullDatabaseID |-> ServerDecimal(pair[2])],
             User |-> ZeroUser]
    ELSE IF \E u \in RealUsers : generateUserNodeID(u) = id
    THEN [TypeName |-> "User", PullRequest |-> ZeroPullRequest,
          User |-> [DatabaseID |-> CHOOSE u \in RealUsers : generateUserNodeID(u) = id]]
    ELSE NullNode

\* The requested IDs that name something on the server.
Resolvable(ids) == {ids[i] : i \in {j \in DOMAIN ids : ServerNode(ids[j]) # NullNode}}

\* Response to nodes(ids:): one entry per requested ID, in request order; the
\* IDs in `found` resolve, the others are null.
GraphQLNodes(ids, found) ==
    [i \in DOMAIN ids |-> IF ids[i] \in found THEN ServerNode(ids[i]) ELSE NullNode]

\* Second loop: prMap, keyed by FullDatabaseID; a later node replaces an earlier one.
PRMap(nodes) ==
    LET prs == {i \in DOMAIN nodes : nodes[i].TypeName = "PullRequest"}
        keys == {nodes[i].PullRequest.FullDatabaseID : i \in prs}
        last(k) == CHOOSE i \in prs :
                       /\ nodes[i].PullRequest.FullDatabaseID = k
                       /\ \A j \in prs : nodes[j].PullRequest.FullDatabaseID = k => j <= i
    IN [k \in keys |-> [ID |-> nodes[last(k)].PullRequest.ID,
                        FullDatabaseID |-> nodes[last(k)].PullRequest.FullDatabaseID]]

\* Second loop: userMap, keyed by DatabaseID.
UserMap(nodes) ==
    LET us == {i \in DOMAIN nodes : nodes[i].TypeName = "User"}
        keys == {nodes[i].User.DatabaseID : i \in us}
    IN [k \in keys |-> [DatabaseID |-> k]]

\* Go map index: the zero value (a nil pointer) for a missing key.
Lookup(m, k) == IF k \in DOMAIN m THEN m[k] ELSE Nil

fromAPISession(s) ==
    [ID |-> s.ID, UserID |-> s.UserID, RepoID |-> s.RepoID,
     ResourceType |-> s.ResourceType, ResourceID |-> s.ResourceID,
     PullRequest |-> Nil, User |-> Nil]

\* Body of the third loop: one hydrated session.
HydrateOne(s, prMap, userMap) ==
    [fromAPISession(s) EXCEPT
        !.PullRequest = Lookup(prMap, FormatInt(s.ResourceID)),
        !.User = Lookup(userMap, s.UserID)]

\* Variant: the hydrated sessions come out in reverse order.
NewSessionsReversed(ss, nodes) ==
    [i \in DOMAIN ss |-> HydrateOne(ss[Len(ss) + 1 - i], PRMap(nodes), UserMap(nodes))]

\* Third loop: newSessions, one per raw session, in order.
NewSessions(ss, nodes) ==
    [i \in DOMAIN ss |-> HydrateOne(ss[i], PRMap(nodes), UserMap(nodes))]

\* ------------------------------------------------------------ operations
SessInit ==
    /\ server \in Servers
    /\ defaultSessionsPerPage \in 1..MaxPageSize
    /\ pc = "idle"
    /\ op = "none"
    /\ args = NoArgs
    /\ limit = 0
    /\ pageSize = 0
    /\ page = 0
    /\ sessions = <<>>
    /\ delivered = 0
    /\ restCalls = 0
    /\ gqlCalls = 0
    /\ getStatus = 0
    /\ queryIDs = <<>>
    /\ respNodes = <<>>
    /\ gqlErr = NoError
    /\ result = <<>>
    /\ err = NoError

\* The call returns (res, e).
Returns(res, e) ==
    /\ pc' = "done"
    /\ result' = res
    /\ err' = e

\* Variant: the loop goes on when the count equals the limit.
LoopBreaksPastLimit(pageLen, size, accLen, lim) == pageLen < size \/ accLen > lim

\* Loop exit test of the list operations.
LoopBreaks(pageLen, size, accLen, lim) == pageLen < size \/ accLen >= lim

\* Variant: nothing is dropped.
DropNothing(ss, lim) == ss

\* "Drop any above the limit"
DropAboveLimit(ss, lim) == IF Len(ss) > lim THEN SubSeq(ss, 1, lim) ELSE ss

\* Variant: the raw sessions are returned unhydrated and the error is dropped.
HydrationFailedIgnored(ss, e) ==
    [result |-> [i \in DOMAIN ss |-> fromAPISession(ss[i])], err |-> NoError]

\* What a list operation returns when hydration fails with error e.
HydrationFailed(ss, e) ==
    [result |-> <<>>, err |-> Wrap("failed to fetch session resources", e)]

\* Variant: 404 is reported like any other status.
GetSessionStatusErrorGeneric(status) == <<"failed to get session">>

\* Error GetSession returns for a response whose status is not 200.
GetSessionStatusError(status) ==
    IF status = 404 THEN <<ErrSessionNotFound>> ELSE <<"failed to get session">>

\* Variant: the query is issued for an empty list too.
EnterHydrationAlways(ss) ==
    /\ sessions' = ss
    /\ pc' = "hydrate"
    /\ UNCHANGED <<result, err>>

\* Call hydrateSessionPullRequestsAndUsers(ss): with no session it returns
\* (nil, nil) at once, otherwise the GraphQL query is issued next.
EnterHydration(ss) ==
    /\ sessions' = ss
    /\ IF Len(ss) = 0 THEN Returns(<<>>, NoError)
       ELSE /\ pc' = "hydrate"
            /\ UNCHANGED <<result, err>>

\* Variant: no shortcut for limit == 0.
ListEntryNoShortcut(o, a, l) ==
    /\ op' = o
    /\ args' = a
    /\ limit' = l
    /\ pc' = "paging"
    /\ pageSize' = defaultSessionsPerPage
    /\ UNCHANGED <<result, err>>
    /\ UNCHANGED <<server, defaultSessionsPerPage, page, sessions, delivered,
                   restCalls, gqlCalls, getStatus, queryIDs, respNodes, gqlErr>>

\* Entry of a list operation whose arguments passed validation.
ListEntry(o, a, l) ==
    /\ op' = o
    /\ args' = a
    /\ limit' = l
    /\ IF l = 0
       THEN /\ Returns(<<>>, NoError)
            /\ UNCHANGED pageSize
       ELSE /\ pc' = "paging"
            /\ pageSize' = defaultSessionsPerPage
            /\ UNCHANGED <<result, err>>
    /\ UNCHANGED <<server, defaultSessionsPerPage, page, sessions, delivered,
                   restCalls, gqlCalls, getStatus, queryIDs, respNodes, gqlErr>>

\* A call that fails its argument validation.
Rejected(o, a, l, e) ==
    /\ op' = o
    /\ args' = a
    /\ limit' = l
    /\ Returns(<<>>, e)
    /\ UNCHANGED <<server, defaultSessionsPerPage, pageSize, page, sessions,
                   delivered, restCalls, gqlCalls, getStatus, queryIDs, respNodes, gqlErr>>

\* Variant: the shortcut for limit == 0 comes before the validation.
ArgumentsRejectedAfterShortcut(missing, l) == missing /\ l # 0

\* The validation of the arguments comes first in a list operation: the
\* limit has no say in it.
ArgumentsRejected(missing, l) == missing

ListSessionsForViewer(l) ==
    /\ pc = "idle"
    /\ ListEntry("ListSessionsForViewer", NoArgs, l)

ListSessionsForRepo(owner, repo, l) ==
    /\ pc = "idle"
    /\ LET a == [NoArgs EXCEPT !.owner = owner, !.repo = repo]
       IN IF ArgumentsRejected(owner = "" \/ repo = "", l)
          THEN Rejected("ListSessionsForRepo", a, l, <<"owner and repo are required">>)
          ELSE ListEntry("ListSessionsForRepo", a, l)

ListSessionsByResourceID(resourceType, resourceID, l) ==
    /\ pc = "idle"
    /\ LET a == [NoArgs EXCEPT !.resourceType = resourceType, !.resourceID = resourceID]
       IN IF ArgumentsRejected(resourceType = "" \/ resourceID = 0, l)
          THEN Rejected("ListSessionsByResourceID", a, l, <<"missing resource type/ID">>)
          ELSE ListEntry("ListSessionsByResourceID", a, l)

\* One iteration of the page loop of a list operation, and, when the loop
\* exits, the truncation and the entry into hydration.
ListPage(resp) ==
    /\ pc = "paging"
    /\ page' = page + 1
    /\ restCalls' = restCalls + 1
    /\ IF resp.netErr
       THEN /\ Returns(<<>>, <<"transport error">>)
            /\ UNCHANGED <<sessions, delivered>>
       ELSE IF resp.StatusCode # 200
       THEN /\ Returns(<<>>, <<"failed to list sessions">>)
            /\ UNCHANGED <<sessions, delivered>>
       ELSE IF ~resp.validJSON
       THEN /\ Returns(<<>>, Wrap("failed to decode sessions response", <<"json error">>))
            /\ UNCHANGED <<sessions, delivered>>
       ELSE LET responseSessions == ServerPage(page + 1, pageSize)
                acc == sessions \o responseSessions
            IN /\ delivered' = delivered + Len(responseSessions)
               /\ IF LoopBreaks(Len(responseSessions), pageSize, Len(acc), limit)
                  THEN EnterHydration(DropAboveLimit(acc, limit))
                  ELSE /\ sessions' = acc
                       /\ UNCHANGED <<pc, result, err>>
    /\ UNCHANGED <<server, defaultSessionsPerPage, op, args, limit, pageSize,
                   gqlCalls, getStatus, queryIDs, respNodes, gqlErr>>

GetSession(id) ==
    /\ pc = "idle"
    /\ op' = "GetSession"
    /\ args' = [NoArgs EXCEPT !.id = id]
    /\ IF id = <<>>
       THEN Returns(<<>>, <<"missing session ID">>)
       ELSE /\ pc' = "getting"
            /\ UNCHANGED <<result, err>>
    /\ UNCHANGED <<server, defaultSessionsPerPage, limit, pageSize, page, sessions,
                   delivered, restCalls, gqlCalls, getStatus, queryIDs, respNodes, gqlErr>>

\* The response to GetSession's request arrives. The server answers 200 with a
\* session body only for a session it holds.
GetSessionResponse(resp) ==
    /\ pc = "getting"
    /\ restCalls' = restCalls + 1
    /\ getStatus' = IF resp.netErr THEN 0 ELSE resp.StatusCode
    /\ IF resp.netErr
       THEN /\ Returns(<<>>, <<"transport error">>)
            /\ UNCHANGED sessions
       ELSE IF resp.StatusCode # 200
       THEN /\ Returns(<<>>, GetSessionStatusError(resp.StatusCode))
            /\ UNCHANGED sessions
       ELSE IF ~resp.validJSON
       THEN /\ Returns(<<>>, Wrap("failed to decode session response", <<"json error">>))
            /\ UNCHANGED sessions
       ELSE /\ \E i \in DOMAIN server : server[i].ID = args.id
            /\ LET rawSession == server[CHOOSE i \in DOMAIN server : server[i].ID = args.id]
               IN EnterHydration(<<rawSession>>)
    /\ UNCHANGED <<server, defaultSessionsPerPage, op, args, limit, pageSize, page,
                   delivered, gqlCalls, queryIDs, respNodes, gqlErr>>

\* The GraphQL query of hydrateSessionPullRequestsAndUsers succeeds; the server
\* resolves some of the requested IDs (`found`) and answers null for the rest.
Hydrate ==
    /\ pc = "hydrate"
    /\ LET ids == HydrationIDs(sessions)
       IN \E found \in SUBSET Resolvable(ids) :
              LET nodes == GraphQLNodes(ids, found)
              IN /\ queryIDs' = ids
                 /\ respNodes' = nodes
                 /\ gqlErr' = NoError
                 /\ Returns(NewSessions(sessions, nodes), NoError)
    /\ gqlCalls' = gqlCalls + 1
    /\ UNCHANGED <<server, defaultSessionsPerPage, op, args, limit, pageSize, page,
                   sessions, delivered, restCalls, getStatus>>

\* The GraphQL query fails; the calling operation wraps the error.
HydrateError ==
    /\ pc = "hydrate"
    /\ queryIDs' = HydrationIDs(sessions)
    /\ respNodes' = <<>>
    /\ gqlErr' = <<"non-200 OK status code">>
    /\ LET r == HydrationFailed(sessions, <<"non-200 OK status code">>)
       IN Returns(r.result, r.err)
    /\ gqlCalls' = gqlCalls + 1
    /\ UNCHANGED <<server, defaultSessionsPerPage, op, args, limit, pageSize, page,
                   sessions, delivered, restCalls, getStatus>>

\* The caller has its answer; the client is ready for the next call.
Return ==
    /\ pc = "done"
    /\ pc' = "idle"
    /\ op' = "none"
    /\ args' = NoArgs
    /\ limit' = 0
    /\ pageSize' = 0
    /\ page' = 0
    /\ sessions' = <<>>
    /\ delivered' = 0
    /\ restCalls' = 0
    /\ gqlCalls' = 0
    /\ getStatus' = 0
    /\ queryIDs' = <<>>
    /\ respNodes' = <<>>
    /\ gqlErr' = NoError
    /\ result' = <<>>
    /\ err' = NoError
    /\ UNCHANGED <<server, defaultSessionsPerPage>>

\* ------------------------------------------------------------ auth gate
\* pkg/cmd/agent-task/agent_task.go: the agent-task command and the check
\* its subcommands inherit through PersistentPreRunE.
VARIABLES gpc, gCmd, gCfgErr, gHost, gToken, gSource, gErr, gApiCalls

gateVars == <<gpc, gCmd, gCfgErr, gHost, gToken, gSource, gErr, gApiCalls>>

\* Strings the code inspects character by character are sequences of
\* one-character strings.
HasPrefix(s, prefix) ==
    Len(s) >= Len(prefix) /\ SubSeq(s, 1, Len(prefix)) = prefix

OAuthPrefix == <<"g", "h", "o", "_">>

\* The command itself and the subcommands it registers.
GateCommands == {"agent-task", "list", "create"}

\* Default hosts of the configurations the tests build.
GateHosts == {"", "github.com", "something.ghes.com"}

\* auth.IsEnterprise on those hosts.
IsEnterprise(host) == host # "github.com"

\* Where ActiveToken says the token came from: the config file, the keyring,
\* an environment variable, or nowhere.
TokenSources == {"oauth_token", "keyring", "GH_TOKEN", "GH_ENTERPRISE_TOKEN", ""}

GateTokens ==
    { <<"g", "h", "o", "_", "O">>, <<"g", "h", "p", "_", "C">>,
      <<"g", "h", "e", "_", "E">>, <<"g", "h", "o">>,
      <<"x", "g", "h", "o", "_">>, <<>> }

TokenSourceIsDeviceFlow(source) == source = "oauth_token" \/ source = "keyring"

\* Variant: any GitHub token prefix is taken for the OAuth prefix.
TokenIsOAuthLoose(token) == HasPrefix(token, <<"g", "h">>)

TokenIsOAuth(token) == HasPrefix(token, OAuthPrefix)

HostRejected(host) ==
    IF host = "" THEN <<"no default host configured; run 'gh auth login'">>
    ELSE IF IsEnterprise(host) THEN <<"agent tasks are not supported on this host">>
    ELSE NoError

requireOAuthToken(cfgErr, host, token, source) ==
    IF cfgErr THEN <<"config error">>
    ELSE IF HostRejected(host) # NoError THEN HostRejected(host)
    ELSE IF ~TokenSourceIsDeviceFlow(source) \/ ~TokenIsOAuth(token)
         THEN <<"this command requires an OAuth token. Re-authenticate with: gh auth login">>
    ELSE NoError

GateInit ==
    /\ gpc = "start"
    /\ gCmd \in GateCommands
    /\ gCfgErr \in BOOLEAN
    /\ gHost \in GateHosts
    /\ gToken \in GateTokens
    /\ gSource \in TokenSources
    /\ gErr = NoError
    /\ gApiCalls = 0

\* The hook cobra runs before the selected command's RunE.
PersistentPreRunE ==
    /\ gpc = "start"
    /\ gErr' = requireOAuthToken(gCfgErr, gHost, gToken, gSource)
    /\ gpc' = IF gErr' = NoError THEN "gated" ELSE "failed"
    /\ UNCHANGED <<gCmd, gCfgErr, gHost, gToken, gSource, gApiCalls>>

\* The selected command's RunE: the bare command prints help, list and
\* create go to the Copilot API.
RunE ==
    /\ gpc = "gated"
    /\ gpc' = "ran"
    /\ gApiCalls' = IF gCmd = "agent-task" THEN gApiCalls ELSE gApiCalls + 1
    /\ UNCHANGED <<gCmd, gCfgErr, gHost, gToken, gSource, gErr>>

GateParked ==
    /\ gpc = "start"
    /\ gCmd = "agent-task"
    /\ gCfgErr = FALSE
    /\ gHost = ""
    /\ gToken = <<>>
    /\ gSource = ""
    /\ gErr = NoError
    /\ gApiCalls = 0

\* ------------------------------------------------------------ log follow
\* shared/log.go: Follow and Render. A log is a string of tokens: "D" is the
\* "data: " prefix of a line, an entry token is the opening part of a line's
\* JSON object, "}" closes it, "\n" ends a line. The JSON of a line parses
\* only when the line holds a whole object.
VARIABLES fpc, fullLog, fcut, last, rendered, ferr, fetches, monotone, wholeLines,
          called, sleeps, fetchErr, cancelRequested

followVars == <<fpc, fullLog, fcut, last, rendered, ferr, fetches, monotone, wholeLines,
                called, sleeps, fetchErr, cancelRequested>>

\* What a line's object is: a chat completion chunk with one of two
\* contents, the chunk whose choice has finish_reason "stop", an object of
\* another type, and a chunk whose tool call arguments do not parse.
EntryKinds == {"chunkA", "chunkB", "stop", "other", "bad"}

\* The same with a chunk of two choices, the first of which has
\* finish_reason "stop".
RenderKinds == EntryKinds \cup {"stopFirst"}

IsSpace(c) == c = "\n" \/ c = " "

RECURSIVE TrimLeft(_)
TrimLeft(s) ==
    IF s # <<>> /\ IsSpace(Head(s)) THEN TrimLeft(Tail(s)) ELSE s

RECURSIVE TrimRight(_)
TrimRight(s) ==
    IF s # <<>> /\ IsSpace(s[Len(s)]) THEN TrimRight(SubSeq(s, 1, Len(s) - 1)) ELSE s

\* strings.TrimSpace
TrimSpace(s) == TrimRight(TrimLeft(s))

\* strings.Split(s, "\n"): the pieces between newlines, empty ones included.
RECURSIVE SplitLines(_, _)
SplitLines(s, cur) ==
    IF s = <<>> THEN <<cur>>
    ELSE IF Head(s) = "\n" THEN <<cur>> \o SplitLines(Tail(s), <<>>)
    ELSE SplitLines(Tail(s), Append(cur, Head(s)))

\* slices.DeleteFunc(lines, func(line) bool { return line == "" })
NonEmptyLines(s) == SelectSeq(SplitLines(s, <<>>), LAMBDA line : line # <<>>)

\* strings.CutPrefix(line, "data: ")
CutPrefix(line) ==
    IF line # <<>> /\ Head(line) = "D"
    THEN [raw |-> Tail(line), found |-> TRUE]
    ELSE [raw |-> line, found |-> FALSE]

\* Variant: the Object test is dropped, any whole JSON object is an entry.
ParseEntryAnyObject(raw) ==
    IF Len(raw) = 2 /\ raw[1] \in RenderKinds /\ raw[2] = "}"
    THEN [ok |-> TRUE, entry |-> raw[1]]
    ELSE [ok |-> FALSE, entry |-> ""]

\* json.Unmarshal into chatCompletionChunkEntry and the Object test: ok only
\* when raw is one whole object of type chat.completion.chunk.
ParseEntry(raw) ==
    IF Len(raw) = 2 /\ raw[1] \in RenderKinds \ {"other"} /\ raw[2] = "}"
    THEN [ok |-> TRUE, entry |-> raw[1]]
    ELSE [ok |-> FALSE, entry |-> ""]

\* entry.Choices: what each choice of a chunk writes, and its finish_reason.
Choices(entry) ==
    CASE entry = "stop" -> <<[text |-> "stop", finish |-> "stop"]>>
      [] entry = "stopFirst" -> <<[text |-> "stopFirst", finish |-> "stop"],
                                  [text |-> "afterStop", finish |-> ""]>>
      [] OTHER -> <<[text |-> entry, finish |-> ""]>>

\* Variant: the loop over the choices ends at the choice that has
\* finish_reason "stop".
renderLogEntryUpToStop(entry) ==
    IF entry = "bad"
    THEN [out |-> <<>>, stop |-> FALSE,
          err |-> <<"failed to parse 'view' tool call arguments", "json error">>]
    ELSE LET cs == Choices(entry)
             stops == {i \in DOMAIN cs : cs[i].finish = "stop"}
             n == IF stops = {} THEN Len(cs)
                  ELSE CHOOSE i \in stops : \A j \in stops : i <= j
         IN [out |-> [i \in 1..n |-> cs[i].text], stop |-> stops # {}, err |-> NoError]

\* renderLogEntry: what it writes (the text of every choice, in order),
\* whether a choice had finish_reason "stop", and its error.
renderLogEntry(entry) ==
    IF entry = "bad"
    THEN [out |-> <<>>, stop |-> FALSE,
          err |-> <<"failed to parse 'view' tool call arguments", "json error">>]
    ELSE LET cs == Choices(entry)
         IN [out |-> [i \in DOMAIN cs |-> cs[i].text],
             stop |-> \E i \in DOMAIN cs : cs[i].finish = "stop",
             err |-> NoError]

\* Variant: the stop signal of an entry is dropped.
EntryStopsNever(r) == FALSE

EntryStops(r) == r.stop

\* The loop of Render over the lines, out being what was written so far.
RECURSIVE RenderLines(_, _)
RenderLines(lines, out) ==
    IF lines = <<>> THEN [out |-> out, stop |-> FALSE, err |-> NoError]
    ELSE LET cut == CutPrefix(Head(lines))
             entry == ParseEntry(cut.raw)
         IN IF ~cut.found
            THEN [out |-> out, stop |-> FALSE, err |-> <<"unexpected log format">>]
            ELSE IF ~entry.ok THEN RenderLines(Tail(lines), out)
            ELSE LET r == renderLogEntry(entry.entry)
                 IN IF r.err # NoError
                    THEN [out |-> out \o r.out, stop |-> FALSE,
                          err |-> Wrap("failed to process log entry", r.err)]
                    ELSE IF EntryStops(r)
                    THEN [out |-> out \o r.out, stop |-> TRUE, err |-> NoError]
                    ELSE RenderLines(Tail(lines), out \o r.out)

Render(logs) == RenderLines(NonEmptyLines(logs), <<>>)

\* Variant: the whole content is rendered again on every change.
DiffFromStart(logs, seen) == TrimSpace(logs)

\* strings.TrimSpace(logs[len(last):])
Diff(logs, seen) == TrimSpace(SubSeq(logs, Len(seen) + 1, Len(logs)))

\* The logs a session can have: lines "data: {...}" joined as the tests
\* join them.
LogLine(kind) == <<"D", kind, "}">>

RECURSIVE LogOf(_)
LogOf(kinds) ==
    IF kinds = <<>> THEN <<>>
    ELSE IF Len(kinds) = 1 THEN LogLine(kinds[1])
    ELSE LogLine(Head(kinds)) \o <<"\n", "\n">> \o LogOf(Tail(kinds))

FollowLogs == {LogOf(ks) : ks \in UNION {[1..n -> EntryKinds] : n \in 0..MaxRecords}}

\* The first cut tokens of the log end with a whole line.
WholeLines(log, cut) == cut = 0 \/ log[cut] \in {"}", "\n"}

\* The errors GetSessionLogs returns for a response that is not 200.
FetchErrors == {<<ErrSessionNotFound>>, <<"failed to get session: 500">>}

\* Variant: the poll interval is slept before every fetch, the first included.
MustSleepAlways(wasCalled) == TRUE

\* The fetcher of printLogs sleeps only when it was called before.
MustSleep(wasCalled) == wasCalled

\* Variant: an error of the fetcher is ignored and the loop goes on.
FetchFailedNever(e) == FALSE

\* Follow's test of the error the fetcher returned.
FetchFailed(e) == e # NoError

\* The fetcher of printLogs up to its call of GetSessionLogs.
Fetcher ==
    /\ sleeps' = IF MustSleep(called) THEN sleeps + 1 ELSE sleeps
    /\ called' = TRUE
    /\ fetches' = fetches + 1

FollowInit ==
    /\ fpc = "loop"
    /\ fullLog \in FollowLogs
    /\ fcut = 0
    /\ last = <<>>
    /\ rendered = <<>>
    /\ ferr = NoError
    /\ fetches = 0
    /\ monotone = TRUE
    /\ wholeLines = TRUE
    /\ called = FALSE
    /\ sleeps = 0
    /\ fetchErr = NoError
    /\ cancelRequested = FALSE

\* One turn of Follow's loop in which the fetcher returns the first cut
\* tokens of the log.
FollowFetch(cut) ==
    /\ fpc = "loop"
    /\ fetches < MaxFetches
    /\ Fetcher
    /\ fetchErr' = NoError
    /\ fcut' = cut
    /\ monotone' = (monotone /\ cut >= Len(last))
    /\ wholeLines' = (wholeLines /\ WholeLines(fullLog, cut))
    /\ LET logs == SubSeq(fullLog, 1, cut)
       IN IF logs = last
          THEN UNCHANGED <<fpc, last, rendered, ferr>>
          ELSE IF Len(logs) < Len(last)
          THEN \* logs[len(last):] is out of range: the run panics
               /\ fpc' = "panicked"
               /\ UNCHANGED <<last, rendered, ferr>>
          ELSE LET r == Render(Diff(logs, last))
               IN /\ rendered' = rendered \o r.out
                  /\ ferr' = r.err
                  /\ fpc' = IF r.err # NoError \/ r.stop THEN "returned" ELSE "loop"
                  /\ last' = IF r.err # NoError \/ r.stop THEN last ELSE logs
    /\ UNCHANGED <<fullLog, cancelRequested>>

\* One turn of Follow's loop in which the fetcher returns the error e and
\* no content.
FollowFetchError(e) ==
    /\ fpc = "loop"
    /\ fetches < MaxFetches
    /\ Fetcher
    /\ fetchErr' = e
    /\ IF FetchFailed(e)
       THEN /\ ferr' = e
            /\ fpc' = "returned"
       ELSE \* the content is empty: equal to last, or too short to slice
            /\ ferr' = ferr
            /\ fpc' = IF last = <<>> THEN "loop" ELSE "panicked"
    /\ UNCHANGED <<fullLog, fcut, last, rendered, monotone, wholeLines, cancelRequested>>

\* The user cancels the command while Follow is in its loop, in the sleep of
\* the fetcher or in its request. printLogs gave the request
\* context.Background() and the sleep takes no context: neither is told.
Cancel ==
    /\ fpc = "loop"
    /\ ~cancelRequested
    /\ cancelRequested' = TRUE
    /\ UNCHANGED <<fpc, fullLog, fcut, last, rendered, ferr, fetches, monotone, wholeLines,
                   called, sleeps, fetchErr>>

FollowParked ==
    /\ fpc = "loop"
    /\ fullLog = <<>>
    /\ fcut = 0
    /\ last = <<>>
    /\ rendered = <<>>
    /\ ferr = NoError
    /\ fetches = 0
    /\ monotone = TRUE
    /\ wholeLines = TRUE
    /\ called = FALSE
    /\ sleeps = 0
    /\ fetchErr = NoError
    /\ cancelRequested = FALSE

\* ------------------------------------------------------------ create
\* pkg/cmd/agent-task/create/create.go: the create command, from its RunE to
\* the line it prints.
VARIABLES cpc, canPrompt, BackOff, cArgs, ProblemStatementFile, ProblemStatement,
          fileContent, edited, confirmed, job, jobWithPR, createCalls, getCalls,
          getLog, stdout, stderr, cerr

createVars == <<cpc, canPrompt, BackOff, cArgs, ProblemStatementFile, ProblemStatement,
                fileContent, edited, confirmed, job, jobWithPR, createCalls, getCalls,
                getLog, stdout, stderr, cerr>>

SilentError == <<"SilentError">>

\* Task descriptions: empty, only whitespace, plain, and padded.
Descriptions == { <<>>, <<" ", "\n">>, <<"a">>, <<" ", "a", "\n">> }

\* The values of --from-file: not given, standard input, a file.
FileFlags == {"", "-", "task-desc.md"}

\* What was not read, asked or answered.
NotAsked == [asked |-> FALSE, err |-> FALSE, text |-> <<>>]

\* What cmdutil.ReadFile and Prompter.MarkdownEditor give back.
TextResults ==
    {[asked |-> TRUE, err |-> TRUE, text |-> <<>>]}
        \cup {[asked |-> TRUE, err |-> FALSE, text |-> d] : d \in Descriptions}

\* What Prompter.Confirm gives back.
ConfirmResults == {"yes", "no", "error"}

\* capi.Job as create reads it.
NoJob == [ID |-> "", SessionID |-> "", PullRequest |-> Nil]

Jobs ==
    [ID : {"job123"}, SessionID : {"", "sess1"},
     PullRequest : {Nil, [Number |-> 0], [Number |-> 42]}]

\* What CreateJob and GetJob give back: a job or an error.
JobResults ==
    {[err |-> <<"some API error">>, job |-> NoJob]}
        \cup {[err |-> NoError, job |-> j] : j \in Jobs}

\* j.PullRequest != nil && j.PullRequest.Number > 0
HasPullRequest(j) == j.PullRequest # Nil /\ j.PullRequest.Number > 0

\* The lines create writes.
NoLine == [kind |-> "", number |-> 0, session |-> "", job |-> "", err |-> NoError]

\* Variant: the session suffix is written whether or not the job has a
\* session ID.
agentSessionWebURLAlwaysSuffix(j) ==
    IF j.PullRequest = Nil THEN NoLine
    ELSE [NoLine EXCEPT !.kind = "session-url", !.number = j.PullRequest.Number,
                        !.session = j.SessionID]

\* agentSessionWebURL: the line of the pull request's URL, with the
\* agent-sessions suffix when the job has a session ID.
agentSessionWebURL(j) ==
    IF j.PullRequest = Nil THEN NoLine
    ELSE IF j.SessionID = ""
    THEN [NoLine EXCEPT !.kind = "pull-url", !.number = j.PullRequest.Number]
    ELSE [NoLine EXCEPT !.kind = "session-url", !.number = j.PullRequest.Number,
                        !.session = j.SessionID]

FallbackLine(jobID) == [NoLine EXCEPT !.kind = "job queued", !.job = jobID]

ErrorLine(e) == [NoLine EXCEPT !.kind = "error", !.err = e]

RequiredLine == [NoLine EXCEPT !.kind = "a task description is required."]

\* The polling policies: none given, the one createRun builds, and the one
\* the tests give.
NoBackOff ==
    [kind |-> "nil", maxTries |-> 0, numTries |-> 0, currentInterval |-> 0, elapsed |-> 0]

InitialInterval == 300
MaxInterval == 10000
MaxElapsedTime == 10000
MultiplierNum == 3
MultiplierDen == 2

NewExponentialBackOff ==
    [NoBackOff EXCEPT !.kind = "exponential", !.currentInterval = InitialInterval]

WithMaxRetries(max) == [NoBackOff EXCEPT !.kind = "maxRetries", !.maxTries = max]

Stop == -1

\* The time one GetJob call takes, in milliseconds.
CallDurations == {0, 4000}

\* The ends of the interval the wait is drawn from.
RandomDraws == {"min", "max"}

\* getRandomValueFromInterval with the default randomization factor of 0.5
Randomized(interval, draw) ==
    IF draw = "min" THEN interval - interval \div 2 ELSE interval + interval \div 2

\* Variant: the interval is divided where it should be multiplied.
IncrementCurrentIntervalHalved(interval) ==
    IF interval * MultiplierNum >= MaxInterval * MultiplierDen
    THEN MaxInterval
    ELSE interval \div MultiplierDen

\* incrementCurrentInterval
IncrementCurrentInterval(interval) ==
    IF interval * MultiplierNum >= MaxInterval * MultiplierDen
    THEN MaxInterval
    ELSE (interval * MultiplierNum) \div MultiplierDen

\* Variant: the retry cap lets one more try through.
MaxTriesReachedLate(bo) == bo.maxTries > 0 /\ bo.maxTries < bo.numTries

MaxTriesReached(bo) == bo.maxTries > 0 /\ bo.maxTries <= bo.numTries

\* NextBackOff after a call that took dur: the wait (or Stop) and the policy's
\* new state.
NextBackOff(bo, dur, draw) ==
    IF bo.kind = "maxRetries"
    THEN IF MaxTriesReached(bo)
         THEN [next |-> Stop, bo |-> bo]
         ELSE [next |-> 0, bo |-> [bo EXCEPT !.numTries = bo.numTries + 1]]
    ELSE LET elapsed == bo.elapsed + dur
             next == Randomized(bo.currentInterval, draw)
             stepped == [bo EXCEPT !.currentInterval = IncrementCurrentInterval(bo.currentInterval)]
         IN IF elapsed + next > MaxElapsedTime
            THEN [next |-> Stop, bo |-> [stepped EXCEPT !.elapsed = elapsed]]
            ELSE [next |-> next, bo |-> [stepped EXCEPT !.elapsed = elapsed + next]]

errPRNotReady == "job not ready"

\* Variant: a GetJob error is retried like a job that is not ready.
RetryStopsNever(res) == FALSE

\* backoff.Permanent(err): Retry gives up on a GetJob error.
RetryStops(res) == res.err # NoError

\* Variant: running out of retries is passed on as an error.
FetchJobErrorAlways(retryErr) == retryErr

\* What fetchJobWithBackoff returns for the error Retry ended with.
FetchJobError(retryErr) ==
    IF ErrorsIs(retryErr, errPRNotReady) THEN NoError ELSE retryErr

\* Variant: the job CreateJob returned is never looked at for a pull request.
ImmediatePullRequestNever(j) == FALSE

ImmediatePullRequest(j) == HasPullRequest(j)

\* Variant: a failed submission goes on to polling.
SubmissionFailedNever(res) == FALSE

SubmissionFailed(res) == res.err # NoError

\* Variant: the answer to the confirmation is not looked at.
DeclinedNever(answer) == FALSE

Declined(answer) == answer = "no"

CreateInit ==
    /\ cpc = "start"
    /\ canPrompt \in BOOLEAN
    /\ BackOff \in {NoBackOff} \cup {WithMaxRetries(n) : n \in 1..MaxRetries}
    /\ cArgs = <<>>
    /\ ProblemStatementFile = ""
    /\ ProblemStatement = <<>>
    /\ fileContent = NotAsked
    /\ edited = NotAsked
    /\ confirmed = "none"
    /\ job = NoJob
    /\ jobWithPR = NoJob
    /\ createCalls = 0
    /\ getCalls = 0
    /\ getLog = <<>>
    /\ stdout = <<>>
    /\ stderr = <<>>
    /\ cerr = NoError

\* The command's RunE up to the call of createRun.
CreateRunE(cmdArgs, file) ==
    /\ cpc = "start"
    /\ cArgs' = cmdArgs
    /\ ProblemStatementFile' = file
    /\ IF Len(cmdArgs) > 0 /\ file # ""
       THEN /\ cerr' = <<"only one of -F or arg can be provided">>
            /\ cpc' = "returned"
            /\ UNCHANGED ProblemStatement
       ELSE IF Len(cmdArgs) > 0
       THEN /\ ProblemStatement' = cmdArgs[1]
            /\ cpc' = "createRun"
            /\ UNCHANGED cerr
       ELSE IF file = "" /\ ~canPrompt
       THEN /\ cerr' = <<"a task description or -F is required when running non-interactively">>
            /\ cpc' = "returned"
            /\ UNCHANGED ProblemStatement
       ELSE /\ cpc' = "createRun"
            /\ UNCHANGED <<ProblemStatement, cerr>>
    /\ UNCHANGED <<canPrompt, BackOff, fileContent, edited, confirmed, job, jobWithPR, createCalls,
                   getCalls, getLog, stdout, stderr>>

\* createRun up to the call of CreateJob. repoOK and clientOK say whether
\* BaseRepo and CapiClient succeed; read, editor and answer are what the
\* file, the editor and the confirmation give when they are asked.
createRun(repoOK, read, editor, answer, clientOK) ==
    /\ cpc = "createRun"
    /\ LET readUsed == repoOK /\ ProblemStatement = <<>> /\ ProblemStatementFile # ""
           fromFile == IF readUsed /\ ~read.err THEN TrimSpace(read.text)
                       ELSE ProblemStatement
           editUsed == /\ repoOK /\ ProblemStatement = <<>> /\ canPrompt
                       /\ ~(readUsed /\ read.err)
           statement == IF editUsed /\ ~editor.err THEN TrimSpace(editor.text)
                        ELSE fromFile
           failedEarly == ~repoOK \/ (readUsed /\ read.err) \/ (editUsed /\ editor.err)
           confirmUsed == ~failedEarly /\ statement # <<>> /\ canPrompt
           e == IF ~repoOK
                THEN <<"a repository is required; re-run in a repository or supply one with --repo owner/name">>
                ELSE IF readUsed /\ read.err
                THEN <<"could not read task description file", "read error">>
                ELSE IF editUsed /\ editor.err THEN <<"editor error">>
                ELSE IF statement = <<>> THEN SilentError
                ELSE IF confirmUsed /\ answer = "error" THEN <<"prompt error">>
                ELSE IF confirmUsed /\ Declined(answer) THEN SilentError
                ELSE IF ~clientOK THEN <<"client error">>
                ELSE NoError
       IN /\ fileContent' = IF readUsed THEN read ELSE NotAsked
          /\ edited' = IF editUsed THEN editor ELSE NotAsked
          /\ confirmed' = IF confirmUsed THEN answer ELSE "none"
          /\ ProblemStatement' = statement
          /\ stderr' = IF ~failedEarly /\ statement = <<>>
                       THEN Append(stderr, RequiredLine) ELSE stderr
          /\ cerr' = e
          /\ cpc' = IF e = NoError THEN "CreateJob" ELSE "returned"
          /\ createCalls' = IF e = NoError THEN createCalls + 1 ELSE createCalls
    /\ UNCHANGED <<canPrompt, BackOff, cArgs, ProblemStatementFile, job, jobWithPR, getCalls,
                   getLog, stdout>>

\* CreateJob returns: createRun goes on to its end, or to the first GetJob
\* of fetchJobWithBackoff.
CreateJobReturns(res) ==
    /\ cpc = "CreateJob"
    /\ IF SubmissionFailed(res)
       THEN /\ cerr' = res.err
            /\ cpc' = "returned"
            /\ UNCHANGED <<BackOff, job, getCalls, stdout>>
       ELSE IF ImmediatePullRequest(res.job)
       THEN /\ stdout' = Append(stdout, agentSessionWebURL(res.job))
            /\ job' = res.job
            /\ cpc' = "returned"
            /\ UNCHANGED <<BackOff, getCalls, cerr>>
       ELSE /\ BackOff' = IF BackOff.kind = "nil" THEN NewExponentialBackOff
                          ELSE [BackOff EXCEPT !.numTries = 0]
            /\ job' = res.job
            /\ getCalls' = getCalls + 1
            /\ cpc' = "GetJob"
            /\ UNCHANGED <<stdout, cerr>>
    /\ UNCHANGED <<canPrompt, cArgs, ProblemStatementFile, ProblemStatement, fileContent,
                   edited, confirmed, jobWithPR, createCalls, getLog, stderr>>

\* GetJob returns after dur milliseconds: one turn of backoff.Retry, and the
\* rest of createRun when Retry ends.
GetJobReturns(res, dur, draw) ==
    /\ cpc = "GetJob"
    /\ LET found == ~RetryStops(res) /\ res.err = NoError /\ HasPullRequest(res.job)
           nb == NextBackOff(BackOff, dur, draw)
           retryErr == IF RetryStops(res) THEN res.err ELSE <<errPRNotReady>>
           ended == RetryStops(res) \/ found \/ nb.next = Stop
       IN /\ getLog' = Append(getLog, IF res.err # NoError THEN "error"
                                      ELSE IF HasPullRequest(res.job) THEN "pull request"
                                      ELSE "not ready")
          /\ BackOff' = IF RetryStops(res) \/ found THEN BackOff ELSE nb.bo
          /\ cpc' = IF ended THEN "returned" ELSE "GetJob"
          /\ getCalls' = IF ended THEN getCalls ELSE getCalls + 1
          /\ stderr' = IF ~found /\ ended /\ FetchJobError(retryErr) # NoError
                       THEN Append(stderr, ErrorLine(FetchJobError(retryErr)))
                       ELSE stderr
          /\ jobWithPR' = IF found THEN res.job ELSE NoJob
          /\ stdout' = IF found THEN Append(stdout, agentSessionWebURL(jobWithPR'))
                       ELSE IF ended THEN Append(stdout, FallbackLine(job.ID))
                       ELSE stdout
    /\ UNCHANGED <<canPrompt, cArgs, ProblemStatementFile, ProblemStatement, fileContent,
                   edited, confirmed, job, createCalls, cerr>>

CreateParked ==
    /\ cpc = "start"
    /\ canPrompt = FALSE
    /\ BackOff = NoBackOff
    /\ cArgs = <<>>
    /\ ProblemStatementFile = ""
    /\ ProblemStatement = <<>>
    /\ fileContent = NotAsked
    /\ edited = NotAsked
    /\ confirmed = "none"
    /\ job = NoJob
    /\ jobWithPR = NoJob
    /\ createCalls = 0
    /\ getCalls = 0
    /\ getLog = <<>>
    /\ stdout = <<>>
    /\ stderr = <<>>
    /\ cerr = NoError

\* ------------------------------------------------------------- log render
\* view.go, printLogs without --follow: the logs of the session are fetched
\* once and handed to Render.
VARIABLES rpc, rLogs, rOut, rStop, rErr

renderVars == <<rpc, rLogs, rOut, rStop, rErr>>

\* The lines a log can hold: an empty line, a whole record, a record
\* without the "data: " prefix, the prefix alone and a record whose JSON is
\* cut short.
LogLines ==
    {<<>>, <<"D">>}
        \cup {LogLine(k) : k \in RenderKinds}
        \cup {<<k, "}">> : k \in RenderKinds}
        \cup {<<"D", k>> : k \in RenderKinds}

RECURSIVE JoinLines(_)
JoinLines(lines) ==
    IF lines = <<>> THEN <<>>
    ELSE IF Len(lines) = 1 THEN Head(lines)
    ELSE Head(lines) \o <<"\n">> \o JoinLines(Tail(lines))

RenderLogs == {JoinLines(ls) : ls \in UNION {[1..n -> LogLines] : n \in 0..MaxLines}}

RenderInit ==
    /\ rpc = "fetch"
    /\ rLogs \in RenderLogs
    /\ rOut = <<>>
    /\ rStop = FALSE
    /\ rErr = NoError

\* GetSessionLogs returns the logs and Render runs over them.
PrintLogs ==
    /\ rpc = "fetch"
    /\ LET r == Render(rLogs)
       IN /\ rOut' = r.out
          /\ rStop' = r.stop
          /\ rErr' = r.err
    /\ rpc' = "rendered"
    /\ UNCHANGED rLogs

\* GetSessionLogs fails with e.
PrintLogsFetchError(e) ==
    /\ rpc = "fetch"
    /\ rErr' = Wrap("failed to fetch session logs", e)
    /\ rpc' = "failed"
    /\ UNCHANGED <<rLogs, rOut, rStop>>

RenderParked ==
    /\ rpc = "fetch"
    /\ rLogs = <<>>
    /\ rOut = <<>>
    /\ rStop = FALSE
    /\ rErr = NoError

\* ------------------------------------------------------------ view command
\* view/view.go: NewCmdView's RunE and viewRun, with the display helpers of
\* shared/display.go. A selector is the text of the argument; a URL and a
\* session ID are sequences of pieces, a piece being a fixed text or one
\* character.
VARIABLES vpc, vTTY, SelectorArg, optsSessionID, Web, Log, Follow, sess, prID, prURL,
          listed, session, getSessionCalls, pullRequestCalls, listCalls,
          promptCalls, selected, logFetches, browsed, printed, vErrOut, verr,
          hostname, databaseIDCalls

viewVars == <<vpc, vTTY, SelectorArg, optsSessionID, Web, Log, Follow, sess, prID, prURL,
              listed, session, getSessionCalls, pullRequestCalls, listCalls,
              promptCalls, selected, logFetches, browsed, printed, vErrOut, verr,
              hostname, databaseIDCalls>>

defaultLimit == 40

AgentsHomeURL == <<"https://github.com/copilot/agents">>

\* Texts that match uuidRE, in lower and in upper case hexadecimal digits.
UUIDs == {"00000000-0000-0000-0000-000000000000", "E2FA49D2-F164-4A56-AB99-498090B8FCDF"}

\* Texts one character away from matching uuidRE.
NearUUIDs == {"0000000-0000-0000-0000-000000000000", "g0000000-0000-0000-0000-000000000000"}

SessionURL == "https://github.com/OWNER/REPO/pull/42/agent-sessions/00000000-0000-0000-0000-000000000000"

Selectors ==
    UUIDs \cup NearUUIDs
        \cup {"", "42", "some-branch", "OWNER/REPO#42", SessionURL,
              "https://github.com/OWNER/REPO/pull/42",
              "https://github.com/OWNER/REPO/pull/42/agent-sessions/not-a-uuid"}

\* Variant: the pattern accepts lower case hexadecimal digits only.
IsSessionIDLowerCase(s) == s = "00000000-0000-0000-0000-000000000000"

\* uuidRE.MatchString(s)
IsSessionID(s) == s \in UUIDs

\* The session ID of a pull request URL whose rest is /agent-sessions/
\* and a text that matches the UUID pattern; an error otherwise.
ParseSessionIDFromURL(s) ==
    IF s = SessionURL
    THEN [id |-> "00000000-0000-0000-0000-000000000000", err |-> NoError]
    ELSE [id |-> "", err |-> <<"not a valid agent session URL">>]

\* prShared.ParseFullReference: OWNER/REPO#N and nothing else.
ParseFullReference(s) ==
    IF s = "OWNER/REPO#42" THEN [num |-> 42, err |-> NoError]
    ELSE [num |-> 0, err |-> <<"not a reference">>]

\* url.PathEscape over the characters the IDs here are made of.
EscapeChar(c) ==
    CASE c = "/" -> "%2F"
      [] c = " " -> "%20"
      [] c = "?" -> "%3F"
      [] c = "#" -> "%23"
      [] c = "%" -> "%25"
      [] OTHER -> c

PathEscape(s) == [i \in DOMAIN s |-> EscapeChar(s[i])]

SessionStates ==
    {"queued", "in_progress", "completed", "failed", "canceled", "cancelled",
     "idle", "waiting_for_user", "timed_out", "mystery"}

SessionStateString(state) ==
    CASE state = "queued" -> "Queued"
      [] state = "in_progress" -> "In Progress"
      [] state = "completed" -> "Completed"
      [] state = "failed" -> "Failed"
      [] state = "idle" -> "Idle"
      [] state = "waiting_for_user" -> "Waiting for User"
      [] state = "timed_out" -> "Timed Out"
      [] state = "cancelled" -> "Cancelled"
      [] OTHER -> state

\* The colour function chosen for the state of a session.
ColorFuncForSessionState(state) ==
    CASE state = "completed" -> "Green"
      [] state = "canceled" -> "Muted"
      [] state \in {"in_progress", "queued"} -> "Yellow"
      [] state = "failed" -> "Red"
      [] OTHER -> "Muted"

PullRequestURL == <<"https://github.com/OWNER/REPO/pull/42">>

APullRequest == [URL |-> PullRequestURL, Number |-> 42]

NoSession == [ID |-> <<>>, State |-> "", PullRequest |-> Nil]

\* What GetSession can return: an error, or a session in any state, with or
\* without a pull request.
GetSessionResults ==
    [err : {<<ErrSessionNotFound>>, <<"some error">>}, sess : {NoSession}]
        \cup [err : {NoError},
              sess : [ID : {<<"s", "1">>, <<"a", "/", "b">>}, State : SessionStates,
                      PullRequest : {Nil, APullRequest}]]

\* What resolving the pull request can return: GetPullRequestDatabaseID
\* gives the ID and the URL, the finder gives the pull request with its
\* FullDatabaseID text and the host of its repository.
PullRequestResults ==
    [err : {<<"some error">>}, host : {"github.com"}, id : {0}, parses : {TRUE}]
        \cup [err : {NoError}, host : {"github.com", "something.ghes.com"},
              id : {0, 999}, parses : BOOLEAN]

\* The i-th session of a listing.
ListedSession(i, state) ==
    [ID |-> <<"s", DigitChars[i + 1]>>, State |-> state, PullRequest |-> APullRequest]

ViewListResults ==
    [err : {<<"some error">>}, sessions : {<<>>}]
        \cup [err : {NoError},
              sessions : UNION {{[i \in 1..n |-> ListedSession(i, st[i])] :
                                    st \in [1..n -> {"completed", "in_progress"}]} :
                                n \in 0..MaxSessions}]

SelectResults == [err : {NoError, <<"prompt failed">>}, index : 0..(MaxSessions - 1)]

NoPrint == [state |-> "", color |-> "", id |-> <<>>, pr |-> FALSE, hint |-> ""]

\* What printSession writes for a session.
printSession(s) ==
    [state |-> SessionStateString(s.State),
     color |-> ColorFuncForSessionState(s.State),
     id |-> s.ID,
     pr |-> s.PullRequest # Nil,
     hint |-> IF ~Log THEN "--log" ELSE IF ~Follow THEN "--log --follow" ELSE ""]

\* Variant: the page of the session is never used, the agents home is opened.
SessionWebURLHome(s) == AgentsHomeURL

\* The URL --web opens for a session that was fetched by its ID.
SessionWebURL(s) ==
    IF s.PullRequest # Nil
    THEN s.PullRequest.URL \o <<"/agent-sessions/">> \o PathEscape(s.ID)
    ELSE AgentsHomeURL

\* Variant: the prompt is shown for a single session too.
MustSelectAlways(ss) == Len(ss) >= 1

\* More than one session matches: the user selects one.
MustSelect(ss) == Len(ss) > 1

ViewInit ==
    /\ vpc = "start"
    /\ vTTY = FALSE
    /\ SelectorArg = ""
    /\ optsSessionID = ""
    /\ Web = FALSE
    /\ Log = FALSE
    /\ Follow = FALSE
    /\ sess = NoSession
    /\ prID = 0
    /\ prURL = <<>>
    /\ listed = <<>>
    /\ session = NoSession
    /\ getSessionCalls = 0
    /\ pullRequestCalls = 0
    /\ listCalls = <<>>
    /\ promptCalls = 0
    /\ selected = 0
    /\ logFetches = 0
    /\ browsed = <<>>
    /\ printed = <<>>
    /\ vErrOut = <<>>
    /\ verr = NoError
    /\ hostname = ""
    /\ databaseIDCalls = 0

ViewParked == ViewInit

\* The session s is shown: printSession, then printLogs under --log.
Show(s) ==
    /\ session' = s
    /\ printed' = Append(printed, printSession(s))
    /\ vpc' = IF Log THEN "logs" ELSE "done"

\* The browser is opened at webURL and the run ends.
Browse(webURL) ==
    /\ browsed' = Append(browsed, webURL)
    /\ vErrOut' = IF vTTY THEN Append(vErrOut, <<"Opening ">> \o webURL) ELSE vErrOut
    /\ verr' = NoError
    /\ vpc' = "done"

\* The run ends with the error e.
ViewFails(e) ==
    /\ verr' = e
    /\ vpc' = "done"

\* ListSessionsByResourceID is called for the pull request id.
ListByPullRequest(id) ==
    /\ listCalls' = Append(listCalls,
                            [resourceType |-> "pull", resourceID |-> id,
                             limit |-> defaultLimit])
    /\ vpc' = "list"

\* Variant: every host is taken.
HostSupportedAny(host) == TRUE

\* hostname == ghinstance.Default()
HostSupported(host) == host = "github.com"

\* RunE of the view command, and viewRun up to its first call of the API.
\* hostname is the host of the repository the selector resolved to,
\* databaseIDCalls the calls of GetPullRequestDatabaseID.
ViewRunE(sel, web, log, follow, tty, clientOK, base) ==
    /\ vpc = "start"
    /\ LET parsed == ParseSessionIDFromURL(sel)
           id == IF sel = "" THEN ""
                 ELSE IF IsSessionID(sel) THEN sel
                 ELSE IF parsed.err = NoError THEN parsed.id
                 ELSE ""
       IN /\ SelectorArg' = sel
          /\ optsSessionID' = id
          /\ Web' = web
          /\ Log' = log
          /\ Follow' = follow
          /\ vTTY' = tty
          /\ LET byReference == /\ ~(id = "" /\ ~tty) /\ ~(follow /\ ~log) /\ clientOK
                                /\ id = "" /\ sel # ""
                                /\ ParseFullReference(sel).err = NoError
             IN /\ hostname' = IF byReference THEN base ELSE ""
                /\ databaseIDCalls' = IF byReference /\ base # "" /\ HostSupported(base)
                                      THEN databaseIDCalls + 1 ELSE databaseIDCalls
          /\ IF id = "" /\ ~tty
             THEN /\ ViewFails(<<"session ID is required when not running interactively">>)
                  /\ UNCHANGED <<getSessionCalls, pullRequestCalls>>
             ELSE IF follow /\ ~log
             THEN /\ ViewFails(<<"--log is required when providing --follow">>)
                  /\ UNCHANGED <<getSessionCalls, pullRequestCalls>>
             ELSE IF ~clientOK
             THEN /\ ViewFails(<<"client error">>)
                  /\ UNCHANGED <<getSessionCalls, pullRequestCalls>>
             ELSE IF id # ""
             THEN /\ getSessionCalls' = getSessionCalls + 1
                  /\ vpc' = "getSession"
                  /\ UNCHANGED <<verr, pullRequestCalls>>
             ELSE IF sel # "" /\ ParseFullReference(sel).err = NoError
             THEN IF base = ""
                  THEN /\ ViewFails(<<"base repo error">>)
                       /\ UNCHANGED <<getSessionCalls, pullRequestCalls>>
                  ELSE IF ~HostSupported(base)
                  THEN /\ ViewFails(<<"agent tasks are not supported on this host: ", base>>)
                       /\ UNCHANGED <<getSessionCalls, pullRequestCalls>>
                  ELSE /\ pullRequestCalls' = pullRequestCalls + 1
                       /\ vpc' = "getPullRequestDatabaseID"
                       /\ UNCHANGED <<verr, getSessionCalls>>
             ELSE /\ pullRequestCalls' = pullRequestCalls + 1
                  /\ vpc' = "find"
                  /\ UNCHANGED <<verr, getSessionCalls>>
    /\ UNCHANGED <<selected, sess, prID, prURL, listed, session, listCalls, promptCalls,
                   logFetches, browsed, printed, vErrOut>>

\* GetSession returns res.
ViewGetSession(res) ==
    /\ vpc = "getSession"
    /\ sess' = res.sess
    /\ IF res.err # NoError
       THEN /\ ViewFails(IF ErrorsIs(res.err, ErrSessionNotFound) THEN SilentError ELSE res.err)
            /\ vErrOut' = IF ErrorsIs(res.err, ErrSessionNotFound)
                           THEN Append(vErrOut, <<"session not found">>) ELSE vErrOut
            /\ UNCHANGED <<session, printed, browsed>>
       ELSE IF Web
       THEN /\ Browse(SessionWebURL(res.sess))
            /\ UNCHANGED <<session, printed>>
       ELSE /\ Show(res.sess)
            /\ UNCHANGED <<verr, vErrOut, browsed>>
    /\ UNCHANGED <<selected, vTTY, SelectorArg, optsSessionID, Web, Log, Follow, prID, prURL, listed,
                   getSessionCalls, pullRequestCalls, listCalls, promptCalls, logFetches,
                   hostname, databaseIDCalls>>

\* GetPullRequestDatabaseID returns res for a selector OWNER/REPO#N.
ViewGetPullRequestDatabaseID(res) ==
    /\ vpc = "getPullRequestDatabaseID"
    /\ IF res.err # NoError
       THEN /\ ViewFails(Wrap("failed to fetch pull request", res.err))
            /\ UNCHANGED <<prID, prURL, pullRequestCalls, listCalls>>
       ELSE /\ prID' = res.id
            /\ prURL' = PullRequestURL
            /\ UNCHANGED verr
            /\ IF res.id = 0
               THEN \* prID == 0: the finder is asked as well
                    /\ pullRequestCalls' = pullRequestCalls + 1
                    /\ vpc' = "find"
                    /\ UNCHANGED listCalls
               ELSE /\ ListByPullRequest(res.id)
                    /\ UNCHANGED pullRequestCalls
    /\ UNCHANGED <<selected, vTTY, SelectorArg, optsSessionID, Web, Log, Follow, sess, listed, session,
                   getSessionCalls, promptCalls, logFetches, browsed, printed, vErrOut,
                   hostname, databaseIDCalls>>

\* Finder.Find returns res.
ViewFind(res) ==
    /\ vpc = "find"
    /\ IF res.err # NoError
       THEN /\ ViewFails(res.err)
            /\ UNCHANGED <<prID, prURL, listCalls>>
       ELSE IF ~HostSupported(res.host)
       THEN /\ ViewFails(<<"agent tasks are not supported on this host: ", res.host>>)
            /\ UNCHANGED <<prID, prURL, listCalls>>
       ELSE IF ~res.parses
       THEN /\ ViewFails(<<"failed to parse pull request", "invalid syntax">>)
            /\ UNCHANGED <<prID, prURL, listCalls>>
       ELSE /\ prID' = res.id
            /\ prURL' = PullRequestURL
            /\ ListByPullRequest(res.id)
            /\ UNCHANGED verr
    /\ UNCHANGED <<selected, vTTY, SelectorArg, optsSessionID, Web, Log, Follow, sess, listed, session,
                   getSessionCalls, pullRequestCalls, promptCalls, logFetches, browsed,
                   printed, vErrOut, databaseIDCalls>>
    /\ hostname' = IF res.err = NoError THEN res.host ELSE hostname

\* ListSessionsByResourceID returns res.
ViewListSessions(res) ==
    /\ vpc = "list"
    /\ listed' = res.sessions
    /\ IF res.err # NoError
       THEN /\ ViewFails(Wrap("failed to list sessions for pull request", res.err))
            /\ UNCHANGED <<session, printed, browsed, vErrOut, promptCalls>>
       ELSE IF Len(res.sessions) = 0
       THEN /\ ViewFails(SilentError)
            /\ vErrOut' = Append(vErrOut, <<"no session found for pull request">>)
            /\ UNCHANGED <<session, printed, browsed, promptCalls>>
       ELSE IF Web
       THEN /\ Browse(prURL \o <<"/agent-sessions">>)
            /\ UNCHANGED <<session, printed, promptCalls>>
       ELSE IF MustSelect(res.sessions)
       THEN /\ session' = res.sessions[1]
            /\ promptCalls' = promptCalls + 1
            /\ vpc' = "select"
            /\ UNCHANGED <<verr, printed, browsed, vErrOut>>
       ELSE /\ Show(res.sessions[1])
            /\ UNCHANGED <<verr, browsed, vErrOut, promptCalls>>
    /\ UNCHANGED <<selected, vTTY, SelectorArg, optsSessionID, Web, Log, Follow, sess, prID, prURL,
                   getSessionCalls, pullRequestCalls, listCalls, logFetches,
                   hostname, databaseIDCalls>>

\* Prompter.Select returns res.
ViewSelect(res) ==
    /\ vpc = "select"
    /\ res.index < Len(listed)
    /\ IF res.err # NoError
       THEN /\ ViewFails(res.err)
            /\ UNCHANGED <<session, printed, selected>>
       ELSE /\ selected' = res.index
            /\ Show(listed[res.index + 1])
            /\ UNCHANGED verr
    /\ UNCHANGED <<vTTY, SelectorArg, optsSessionID, Web, Log, Follow, sess, prID, prURL, listed,
                   getSessionCalls, pullRequestCalls, listCalls, promptCalls, logFetches,
                   browsed, vErrOut, hostname, databaseIDCalls>>

\* printLogs fetches the logs of the session and renders them.
ViewPrintLogs(e) ==
    /\ vpc = "logs"
    /\ logFetches' = logFetches + 1
    /\ ViewFails(e)
    /\ UNCHANGED <<selected, vTTY, SelectorArg, optsSessionID, Web, Log, Follow, sess, prID, prURL, listed,
                   session, getSessionCalls, pullRequestCalls, listCalls, promptCalls,
                   browsed, printed, vErrOut, hostname, databaseIDCalls>>

\* ------------------------------------------------------------ list command
\* list/list.go: listRun.
VARIABLES lpc, lLimit, lBase, lTTY, lCalls, lSessions, lOut, lErr

listVars == <<lpc, lLimit, lBase, lTTY, lCalls, lSessions, lOut, lErr>>

listDefaultLimit == 30

\* What opts.BaseRepo gives: no function at all, a repository, an error, a
\* repository without owner and name.
BaseRepos ==
    { [fn |-> FALSE, repo |-> Nil, err |-> NoError],
      [fn |-> TRUE, repo |-> [owner |-> "OWNER", name |-> "REPO"], err |-> NoError],
      [fn |-> TRUE, repo |-> Nil, err |-> <<"ambiguous repo">>],
      [fn |-> TRUE, repo |-> [owner |-> "", name |-> ""], err |-> NoError] }

\* A session of a listing: on a pull request, on a pull request that
\* hydration did not find, on another resource.
ListSessionKinds == {"pull", "unjoined", "other"}

ListSession(i, kind) ==
    [ID |-> <<"s", DigitChars[i + 1]>>,
     ResourceType |-> IF kind = "other" THEN "" ELSE "pull",
     PullRequest |-> IF kind = "pull" THEN APullRequest ELSE Nil,
     State |-> "completed"]

ListResults ==
    [err : {<<"some error">>}, sessions : {<<>>}]
        \cup [err : {NoError},
              sessions : UNION {{[i \in 1..n |-> ListSession(i, k[i])] :
                                    k \in [1..n -> ListSessionKinds]} :
                                n \in 0..MaxSessions}]

\* Variant: the repository is never used, every listing is the viewer's.
RepoScopedNever(base) == FALSE

\* repo != nil && repo.RepoOwner() != "" && repo.RepoName() != "", repo
\* being what BaseRepo returned, its error dropped.
RepoScoped(base) ==
    base.fn /\ base.repo # Nil /\ base.repo.owner # "" /\ base.repo.name # ""

\* The rows of the table: the sessions that carry a pull request.
RECURSIVE Rows(_)
Rows(ss) ==
    IF ss = <<>> THEN <<>>
    ELSE IF Head(ss).ResourceType # "pull" \/ Head(ss).PullRequest = Nil
    THEN Rows(Tail(ss))
    ELSE <<[ID |-> Head(ss).ID, Number |-> Head(ss).PullRequest.Number,
            State |-> Head(ss).State]>> \o Rows(Tail(ss))

ListInit ==
    /\ lpc = "start"
    /\ lLimit = 0
    /\ lBase = [fn |-> FALSE, repo |-> Nil, err |-> NoError]
    /\ lTTY = FALSE
    /\ lCalls = <<>>
    /\ lSessions = <<>>
    /\ lOut = <<>>
    /\ lErr = NoError

ListParked == ListInit

\* listRun up to its call of the API.
listRun(l, base, tty, clientOK) ==
    /\ lpc = "start"
    /\ lLimit' = IF l <= 0 THEN listDefaultLimit ELSE l
    /\ lBase' = base
    /\ lTTY' = tty
    /\ IF ~clientOK
       THEN /\ lErr' = <<"client error">>
            /\ lpc' = "done"
            /\ UNCHANGED lCalls
       ELSE /\ lCalls' = Append(lCalls,
                   IF RepoScoped(base)
                   THEN [op |-> "ListSessionsForRepo", owner |-> base.repo.owner,
                         repo |-> base.repo.name, limit |-> lLimit']
                   ELSE [op |-> "ListSessionsForViewer", owner |-> "", repo |-> "",
                         limit |-> lLimit'])
            /\ lpc' = "listing"
            /\ UNCHANGED lErr
    /\ UNCHANGED <<lSessions, lOut>>

\* The list operation returns res and listRun writes its table.
ListReturns(res) ==
    /\ lpc = "listing"
    /\ lSessions' = res.sessions
    /\ lpc' = "done"
    /\ IF res.err # NoError
       THEN /\ lErr' = res.err
            /\ UNCHANGED lOut
       ELSE IF Len(res.sessions) = 0
       THEN /\ lOut' = Append(lOut, "no agent tasks found")
            /\ lErr' = NoError
       ELSE /\ lOut' = lOut \o (IF lTTY THEN <<"header">> ELSE <<>>)
                            \o [i \in DOMAIN Rows(res.sessions) |-> "row"]
            /\ lErr' = NoError
    /\ UNCHANGED <<lLimit, lBase, lTTY, lCalls>>

\* ------------------------------------------------------------ request URLs
\* capi/sessions.go and capi/job.go: the URL each operation of the client
\* requests. A URL is a sequence of pieces, the characters of a component
\* taken from the caller being one piece each.
VARIABLES upc, uOp, uOwner, uRepo, uID, uRID, uURL, uErr

urlVars == <<upc, uOp, uOwner, uRepo, uID, uRID, uURL, uErr>>

ClientOps ==
    {"ListSessionsForRepo", "ListSessionsByResourceID", "GetSession", "GetSessionLogs",
     "CreateJob", "GetJob"}

\* Components a caller can pass: empty, plain, and with characters that
\* have a meaning in a URL.
PathInputs == {<<>>, <<"a">>, <<"a", "/", "b">>, <<"a", " ", "?">>, <<"%", "#">>}

jobsBasePathV1 == "https://api.githubcopilot.com/agents/swe/v1/jobs"

\* The check of the arguments an operation makes before it builds its URL.
\* The arguments that are no part of the path are taken as passing: the
\* limit of a listing is positive, the problem statement is not empty.
MissingArgument(o, owner, repo, id, rid) ==
    CASE o = "ListSessionsForRepo" ->
             IF owner = <<>> \/ repo = <<>> THEN <<"owner and repo are required">> ELSE NoError
      [] o = "ListSessionsByResourceID" ->
             IF id = <<>> \/ rid = 0 THEN <<"missing resource type/ID">> ELSE NoError
      [] o \in {"GetSession", "GetSessionLogs"} ->
             IF id = <<>> THEN <<"missing session ID">> ELSE NoError
      [] o = "CreateJob" ->
             IF owner = <<>> \/ repo = <<>> THEN <<"owner and repo are required">> ELSE NoError
      [] o = "GetJob" ->
             IF owner = <<>> \/ repo = <<>> \/ id = <<>>
             THEN <<"owner, repo, and jobID are required">> ELSE NoError

\* The URL of operation o; id is the session ID, the job ID or the
\* resource type, rid the resource ID.
RequestURL(o, owner, repo, id, rid) ==
    CASE o = "ListSessionsForRepo" ->
             <<"https://api.githubcopilot.com/agents/sessions/nwo/">> \o PathEscape(owner)
                 \o <<"/">> \o PathEscape(repo)
      [] o = "ListSessionsByResourceID" ->
             <<"https://api.githubcopilot.com/agents/sessions/resource/">> \o PathEscape(id)
                 \o <<"/">> \o FormatInt(rid)
      [] o = "GetSession" ->
             <<"https://api.githubcopilot.com/agents/sessions/">> \o PathEscape(id)
      [] o = "GetSessionLogs" ->
             <<"https://api.githubcopilot.com/agents/sessions/">> \o PathEscape(id) \o <<"/logs">>
      [] o = "CreateJob" ->
             <<jobsBasePathV1, "/">> \o PathEscape(owner) \o <<"/">> \o PathEscape(repo)
      [] o = "GetJob" ->
             <<jobsBasePathV1, "/">> \o owner \o <<"/">> \o repo \o <<"/">> \o id

URLInit ==
    /\ upc = "idle"
    /\ uOp = ""
    /\ uOwner = <<>>
    /\ uRepo = <<>>
    /\ uID = <<>>
    /\ uRID = 0
    /\ uURL = <<>>
    /\ uErr = NoError

URLParked == URLInit

\* Operation o is called and builds its request.
NewRequest(o, owner, repo, id, rid) ==
    /\ upc = "idle"
    /\ uOp' = o
    /\ uOwner' = owner
    /\ uRepo' = repo
    /\ uID' = id
    /\ uRID' = rid
    /\ uErr' = MissingArgument(o, owner, repo, id, rid)
    /\ uURL' = IF uErr' # NoError THEN <<>> ELSE RequestURL(o, owner, repo, id, rid)
    /\ upc' = IF uErr' # NoError THEN "rejected" ELSE "requested"

\* ------------------------------------------------------ create-job request
\* create/create.go line 149 and CreateJob: the body of the request that
\* submits a job. capi/job.go holds CreateJob as it was before the base
\* branch was added (four parameters); the caller and the test doubles are of
\* the later one (five parameters), whose handling of the base branch is
\* taken from the job submission contract.
VARIABLES jpc, jOwner, jRepo, jProblemStatement, jBaseBranch, jBody, jErr

jobVars == <<jpc, jOwner, jRepo, jProblemStatement, jBaseBranch, jBody, jErr>>

defaultEventType == "gh_cli"

\* The values of --base: not given, a branch, a branch with a slash.
BaseBranches == {"", "feature", "release/1.0"}

NoBody == [problem_statement |-> <<>>, event_type |-> "", pull_request |-> Nil]

\* Variant: the base ref is written even when no base branch was given.
BaseRefAlways(baseBranch) == [base_ref |-> <<"refs/heads/", baseBranch>>]

\* The pull_request field of the body: absent without a base branch.
BaseRef(baseBranch) ==
    IF baseBranch = "" THEN Nil ELSE [base_ref |-> <<"refs/heads/", baseBranch>>]

\* The body CreateJob marshals.
CreateJobBody(problemStatement, baseBranch) ==
    [problem_statement |-> problemStatement,
     event_type |-> defaultEventType,
     pull_request |-> BaseRef(baseBranch)]

JobInit ==
    /\ jpc = "createRun"
    /\ jOwner = <<>>
    /\ jRepo = <<>>
    /\ jProblemStatement = <<>>
    /\ jBaseBranch = ""
    /\ jBody = NoBody
    /\ jErr = NoError

JobParked == JobInit

\* createRun calls client.CreateJob with the repository, the problem
\* statement and opts.BaseBranch; CreateJob checks its arguments and builds
\* the request.
CreateJob(owner, repo, problemStatement, baseBranch) ==
    /\ jpc = "createRun"
    /\ jOwner' = owner
    /\ jRepo' = repo
    /\ jProblemStatement' = problemStatement
    /\ jBaseBranch' = baseBranch
    /\ jErr' = IF owner = <<>> \/ repo = <<>> THEN <<"owner and repo are required">>
               ELSE IF problemStatement = <<>> THEN <<"problem statement is required">>
               ELSE NoError
    /\ jBody' = IF jErr' # NoError THEN NoBody
                ELSE CreateJobBody(problemStatement, baseBranch)
    /\ jpc' = IF jErr' # NoError THEN "rejected" ELSE "requested"

\* --------------------------------------------------------- polling policy
\* create/create.go lines 161-171 and 209-220: the waits backoff.Retry takes
\* from the policy createRun builds, one after each GetJob call that found
\* no pull request.
VARIABLES policy, waits, policyStopped

backoffVars == <<policy, waits, policyStopped>>

BackOffPolicyInit ==
    /\ policy = NewExponentialBackOff
    /\ waits = <<>>
    /\ policyStopped = FALSE

BackOffParked == BackOffPolicyInit

\* A GetJob call that took dur found no pull request: Retry asks the policy
\* for the next wait, and sleeps for it or gives up.
RetryNextBackOff(dur, draw) ==
    /\ ~policyStopped
    /\ LET nb == NextBackOff(policy, dur, draw)
       IN /\ policy' = nb.bo
          /\ policyStopped' = (nb.next = Stop)
          /\ waits' = IF nb.next = Stop THEN waits
                      ELSE Append(waits, [interval |-> policy.currentInterval, wait |-> nb.next])

\* ---------------------------------------------------------------- node IDs
\* capi/sessions.go, generatePullRequestNodeID and generateUserNodeID over
\* the whole of int64: a database ID is four 16-bit limbs, most significant
\* first.
VARIABLES npc, nRepoID, nPullRequestID, nUserID, nPullRequestNodeID, nUserNodeID

nodeVars == <<npc, nRepoID, nPullRequestID, nUserID, nPullRequestNodeID, nUserNodeID>>

\* The limbs of an ID small enough to be written as a number here.
Int64(n) == <<0, 0, n \div 65536, n % 65536>>

\* Non-negative int64 values at both ends of every size msgpack tells
\* apart, up to math.MaxInt64.
Int64s ==
    {Int64(0), Int64(1), Int64(127), Int64(128), Int64(255), Int64(256), Int64(1000),
     Int64(2000), Int64(65535), Int64(65536), <<0, 0, 65535, 65535>>, <<0, 1, 0, 0>>,
     <<32767, 65535, 65535, 65535>>}

\* The eight bytes of an ID, big-endian.
Int64Bytes(id) ==
    BigEndian(id[1], 2) \o BigEndian(id[2], 2) \o BigEndian(id[3], 2) \o BigEndian(id[4], 2)

\* Variant: uint8 is chosen up to 256.
EncodeInt64WideUint8(id) ==
    IF id[1] = 0 /\ id[2] = 0 /\ id[3] = 0
    THEN IF id[4] <= 127 THEN <<id[4]>>
         ELSE IF id[4] <= 256 THEN <<204>> \o BigEndian(id[4], 1)
         ELSE <<205>> \o BigEndian(id[4], 2)
    ELSE IF id[1] = 0 /\ id[2] = 0 THEN <<206>> \o SubSeq(Int64Bytes(id), 5, 8)
    ELSE <<207>> \o Int64Bytes(id)

\* msgpack Encoder.EncodeInt with UseCompactInts(true) for a non-negative
\* int64: the shortest of fixint, uint8, uint16, uint32, uint64.
EncodeInt64(id) ==
    IF id[1] = 0 /\ id[2] = 0 /\ id[3] = 0
    THEN IF id[4] <= 127 THEN <<id[4]>>
         ELSE IF id[4] <= 255 THEN <<204>> \o BigEndian(id[4], 1)
         ELSE <<205>> \o BigEndian(id[4], 2)
    ELSE IF id[1] = 0 /\ id[2] = 0 THEN <<206>> \o SubSeq(Int64Bytes(id), 5, 8)
    ELSE <<207>> \o Int64Bytes(id)

RECURSIVE EncodeInt64s(_)
EncodeInt64s(parts) ==
    IF parts = <<>> THEN <<>>
    ELSE EncodeInt64(Head(parts)) \o EncodeInt64s(Tail(parts))

\* encoder.Encode(parts) and base64.RawURLEncoding.EncodeToString
EncodeParts(parts) == Base64RawURL(<<144 + Len(parts)>> \o EncodeInt64s(parts))

generatePullRequestNodeID64(repoID, pullRequestID) ==
    <<"P", "R", "_">> \o EncodeParts(<<Int64(0), repoID, pullRequestID>>)

generateUserNodeID64(userID) ==
    <<"U", "_">> \o EncodeParts(<<Int64(0), userID>>)

NodeInit ==
    /\ npc = "idle"
    /\ nRepoID = Int64(0)
    /\ nPullRequestID = Int64(0)
    /\ nUserID = Int64(0)
    /\ nPullRequestNodeID = <<>>
    /\ nUserNodeID = <<>>

NodeParked == NodeInit

\* The node IDs of one session are generated.
GenerateNodeIDs(repoID, pullRequestID, userID) ==
    /\ npc = "idle"
    /\ nRepoID' = repoID
    /\ nPullRequestID' = pullRequestID
    /\ nUserID' = userID
    /\ nPullRequestNodeID' = generatePullRequestNodeID64(repoID, pullRequestID)
    /\ nUserNodeID' = generateUserNodeID64(userID)
    /\ npc' = "generated"

\* ------------------------------------------------------------ path display
\* shared/log.go, relativePath: the path of a file as the log of a tool call
\* shows it. A path is a string of pieces: the text "/home/runner/work/" is
\* one piece, every other character is a piece of its own.
VARIABLES ppc, absPath, shownPath

pathVars == <<ppc, absPath, shownPath>>

PathChars == {"/", "a", "b"}

\* Paths of tool calls: any characters, after the root of the working copies
\* or not.
ToolPaths ==
    LET tails == UNION {[1..n -> PathChars] : n \in 0..MaxPathLen}
    IN tails \cup {<<"/home/runner/work/">> \o t : t \in tails}

\* strings.TrimPrefix(absPath, "/home/runner/work/")
TrimPrefix(path) ==
    IF path # <<>> /\ Head(path) = "/home/runner/work/" THEN Tail(path) ELSE path

\* strings.Split(s, "/")
RECURSIVE SplitPath(_, _)
SplitPath(s, cur) ==
    IF s = <<>> THEN <<cur>>
    ELSE IF Head(s) = "/" THEN <<cur>> \o SplitPath(Tail(s), <<>>)
    ELSE SplitPath(Tail(s), Append(cur, Head(s)))

\* strings.Join(parts, "/")
RECURSIVE JoinPath(_)
JoinPath(parts) ==
    IF parts = <<>> THEN <<>>
    ELSE IF Len(parts) = 1 THEN parts[1]
    ELSE Head(parts) \o <<"/">> \o JoinPath(Tail(parts))

relativePath(path) ==
    LET parts == SplitPath(TrimPrefix(path), <<>>)
    IN IF Len(parts) > 2 THEN JoinPath(SubSeq(parts, 3, Len(parts)))
       ELSE <<"repository">>

PathInit ==
    /\ ppc = "idle"
    /\ absPath = <<>>
    /\ shownPath = <<>>

PathParked == PathInit

\* A view, create or edit tool call on path is rendered.
RenderToolCallPath(path) ==
    /\ ppc = "idle"
    /\ absPath' = path
    /\ shownPath' = relativePath(path)
    /\ ppc' = "shown"

\* ---------------------------------------------------------- specifications
vars == <<sessVars, gateVars, createVars, followVars, renderVars, viewVars, listVars, urlVars, jobVars, backoffVars, pathVars, nodeVars>>

\* The session operations of the client, the commands at rest.
SessInitAll == SessInit /\ GateParked /\ CreateParked /\ FollowParked /\ RenderParked /\ ViewParked /\ ListParked /\ URLParked /\ JobParked /\ BackOffParked /\ PathParked /\ NodeParked

SessNext ==
    \/ \E l \in 0..MaxLimit :
           ListSessionsForViewer(l)
               /\ UNCHANGED <<gateVars, createVars, followVars, renderVars, viewVars, listVars, urlVars, jobVars, backoffVars, pathVars, nodeVars>>
    \/ \E owner \in Owners, repo \in Repos, l \in 0..MaxLimit :
           ListSessionsForRepo(owner, repo, l)
               /\ UNCHANGED <<gateVars, createVars, followVars, renderVars, viewVars, listVars, urlVars, jobVars, backoffVars, pathVars, nodeVars>>
    \/ \E rt \in ResourceTypes, rid \in ResourceIDs, l \in 0..MaxLimit :
           ListSessionsByResourceID(rt, rid, l)
               /\ UNCHANGED <<gateVars, createVars, followVars, renderVars, viewVars, listVars, urlVars, jobVars, backoffVars, pathVars, nodeVars>>
    \/ \E resp \in Responses :
           ListPage(resp)
               /\ UNCHANGED <<gateVars, createVars, followVars, renderVars, viewVars, listVars, urlVars, jobVars, backoffVars, pathVars, nodeVars>>
    \/ \E id \in {<<>>} \cup {SessionID(i) : i \in 1..(Len(server) + 1)} :
           GetSession(id)
               /\ UNCHANGED <<gateVars, createVars, followVars, renderVars, viewVars, listVars, urlVars, jobVars, backoffVars, pathVars, nodeVars>>
    \/ \E resp \in Responses :
           GetSessionResponse(resp)
               /\ UNCHANGED <<gateVars, createVars, followVars, renderVars, viewVars, listVars, urlVars, jobVars, backoffVars, pathVars, nodeVars>>
    \/ Hydrate /\ UNCHANGED <<gateVars, createVars, followVars, renderVars, viewVars, listVars, urlVars, jobVars, backoffVars, pathVars, nodeVars>>
    \/ HydrateError /\ UNCHANGED <<gateVars, createVars, followVars, renderVars, viewVars, listVars, urlVars, jobVars, backoffVars, pathVars, nodeVars>>
    \/ Return /\ UNCHANGED <<gateVars, createVars, followVars, renderVars, viewVars, listVars, urlVars, jobVars, backoffVars, pathVars, nodeVars>>

SpecSessions == SessInitAll /\ [][SessNext]_vars

\* The client at rest: no call in flight against an empty server.
SessParked == SessInit /\ server = <<>> /\ defaultSessionsPerPage = 1

\* The agent-task command with its gate.
GateInitAll == GateInit /\ SessParked /\ CreateParked /\ FollowParked /\ RenderParked /\ ViewParked /\ ListParked /\ URLParked /\ JobParked /\ BackOffParked /\ PathParked /\ NodeParked

GateNext ==
    \/ PersistentPreRunE /\ UNCHANGED <<sessVars, createVars, followVars, renderVars, viewVars, listVars, urlVars, jobVars, backoffVars, pathVars, nodeVars>>
    \/ RunE /\ UNCHANGED <<sessVars, createVars, followVars, renderVars, viewVars, listVars, urlVars, jobVars, backoffVars, pathVars, nodeVars>>

SpecGate == GateInitAll /\ [][GateNext]_vars

\* One run of the create command.
CreateInitAll == CreateInit /\ SessParked /\ GateParked /\ FollowParked /\ RenderParked /\ ViewParked /\ ListParked /\ URLParked /\ JobParked /\ BackOffParked /\ PathParked /\ NodeParked

CreateNext ==
    \/ \E cmdArgs \in {<<>>} \cup {<<d>> : d \in Descriptions}, file \in FileFlags :
           CreateRunE(cmdArgs, file)
               /\ UNCHANGED <<sessVars, gateVars, followVars, renderVars, viewVars, listVars, urlVars, jobVars, backoffVars, pathVars, nodeVars>>
    \/ \E repoOK \in BOOLEAN, read \in TextResults, editor \in TextResults,
          answer \in ConfirmResults, clientOK \in BOOLEAN :
           createRun(repoOK, read, editor, answer, clientOK)
               /\ UNCHANGED <<sessVars, gateVars, followVars, renderVars, viewVars, listVars, urlVars, jobVars, backoffVars, pathVars, nodeVars>>
    \/ \E res \in JobResults :
           CreateJobReturns(res)
               /\ UNCHANGED <<sessVars, gateVars, followVars, renderVars, viewVars, listVars, urlVars, jobVars, backoffVars, pathVars, nodeVars>>
    \/ \E res \in JobResults, dur \in CallDurations, draw \in RandomDraws :
           GetJobReturns(res, dur, draw)
               /\ UNCHANGED <<sessVars, gateVars, followVars, renderVars, viewVars, listVars, urlVars, jobVars, backoffVars, pathVars, nodeVars>>

SpecCreate == CreateInitAll /\ [][CreateNext]_vars

\* Every call the command waits for returns.
SpecCreateLive == SpecCreate /\ WF_vars(CreateNext)

\* One run of Follow.
FollowInitAll == FollowInit /\ SessParked /\ GateParked /\ CreateParked /\ RenderParked /\ ViewParked /\ ListParked /\ URLParked /\ JobParked /\ BackOffParked /\ PathParked /\ NodeParked

FollowNext ==
    \/ \E cut \in 0..Len(fullLog) :
           FollowFetch(cut)
               /\ UNCHANGED <<sessVars, gateVars, createVars, renderVars, viewVars, listVars, urlVars, jobVars, backoffVars, pathVars, nodeVars>>
    \/ \E e \in FetchErrors :
           FollowFetchError(e)
               /\ UNCHANGED <<sessVars, gateVars, createVars, renderVars, viewVars, listVars, urlVars, jobVars, backoffVars, pathVars, nodeVars>>
    \/ Cancel /\ UNCHANGED <<sessVars, gateVars, createVars, renderVars, viewVars, listVars, urlVars, jobVars, backoffVars, pathVars, nodeVars>>

SpecFollow == FollowInitAll /\ [][FollowNext]_vars

\* One run of printLogs without --follow.
RenderInitAll == RenderInit /\ SessParked /\ GateParked /\ CreateParked /\ FollowParked /\ ViewParked /\ ListParked /\ URLParked /\ JobParked /\ BackOffParked /\ PathParked /\ NodeParked

RenderNext ==
    \/ PrintLogs /\ UNCHANGED <<sessVars, gateVars, createVars, followVars, viewVars, listVars, urlVars, jobVars, backoffVars, pathVars, nodeVars>>
    \/ \E e \in FetchErrors :
           PrintLogsFetchError(e)
               /\ UNCHANGED <<sessVars, gateVars, createVars, followVars, viewVars, listVars, urlVars, jobVars, backoffVars, pathVars, nodeVars>>

SpecRender == RenderInitAll /\ [][RenderNext]_vars

\* One run of the view command.
ViewInitAll == ViewInit /\ SessParked /\ GateParked /\ CreateParked /\ FollowParked /\ RenderParked /\ ListParked /\ URLParked /\ JobParked /\ BackOffParked /\ PathParked /\ NodeParked

ViewNext ==
    \/ \E sel \in Selectors, web \in BOOLEAN, log \in BOOLEAN, follow \in BOOLEAN,
          tty \in BOOLEAN, clientOK \in BOOLEAN, base \in GateHosts :
           ViewRunE(sel, web, log, follow, tty, clientOK, base)
               /\ UNCHANGED <<sessVars, gateVars, createVars, followVars, renderVars, listVars, urlVars, jobVars, backoffVars, pathVars, nodeVars>>
    \/ \E res \in GetSessionResults :
           ViewGetSession(res)
               /\ UNCHANGED <<sessVars, gateVars, createVars, followVars, renderVars, listVars, urlVars, jobVars, backoffVars, pathVars, nodeVars>>
    \/ \E res \in PullRequestResults :
           ViewGetPullRequestDatabaseID(res)
               /\ UNCHANGED <<sessVars, gateVars, createVars, followVars, renderVars, listVars, urlVars, jobVars, backoffVars, pathVars, nodeVars>>
    \/ \E res \in PullRequestResults :
           ViewFind(res)
               /\ UNCHANGED <<sessVars, gateVars, createVars, followVars, renderVars, listVars, urlVars, jobVars, backoffVars, pathVars, nodeVars>>
    \/ \E res \in ViewListResults :
           ViewListSessions(res)
               /\ UNCHANGED <<sessVars, gateVars, createVars, followVars, renderVars, listVars, urlVars, jobVars, backoffVars, pathVars, nodeVars>>
    \/ \E res \in SelectResults :
           ViewSelect(res)
               /\ UNCHANGED <<sessVars, gateVars, createVars, followVars, renderVars, listVars, urlVars, jobVars, backoffVars, pathVars, nodeVars>>
    \/ \E e \in {NoError, <<"some error">>} :
           ViewPrintLogs(e)
               /\ UNCHANGED <<sessVars, gateVars, createVars, followVars, renderVars, listVars, urlVars, jobVars, backoffVars, pathVars, nodeVars>>

SpecView == ViewInitAll /\ [][ViewNext]_vars

\* One run of the list command.
ListInitAll == ListInit /\ SessParked /\ GateParked /\ CreateParked /\ FollowParked /\ RenderParked /\ ViewParked /\ URLParked /\ JobParked /\ BackOffParked /\ PathParked /\ NodeParked

ListNext ==
    \/ \E l \in 0..MaxLimit, base \in BaseRepos, tty \in BOOLEAN, clientOK \in BOOLEAN :
           listRun(l, base, tty, clientOK)
               /\ UNCHANGED <<sessVars, gateVars, createVars, followVars, renderVars, viewVars, urlVars, jobVars, backoffVars, pathVars, nodeVars>>
    \/ \E res \in ListResults :
           ListReturns(res)
               /\ UNCHANGED <<sessVars, gateVars, createVars, followVars, renderVars, viewVars, urlVars, jobVars, backoffVars, pathVars, nodeVars>>

SpecList == ListInitAll /\ [][ListNext]_vars

\* The request URL of every client operation.
URLInitAll == URLInit /\ SessParked /\ GateParked /\ CreateParked /\ FollowParked /\ RenderParked /\ ViewParked /\ ListParked /\ JobParked /\ BackOffParked /\ PathParked /\ NodeParked

URLNext ==
    \/ \E o \in ClientOps, owner \in PathInputs, repo \in PathInputs, id \in PathInputs, rid \in ResourceIDs :
           NewRequest(o, owner, repo, id, rid)
               /\ UNCHANGED <<sessVars, gateVars, createVars, followVars, renderVars, viewVars, listVars, jobVars, backoffVars, pathVars, nodeVars>>

SpecURLs == URLInitAll /\ [][URLNext]_vars

\* The waits of the default polling policy.
BackOffPolicyInitAll == BackOffPolicyInit /\ SessParked /\ GateParked /\ CreateParked /\ FollowParked /\ RenderParked /\ ViewParked /\ ListParked /\ URLParked /\ JobParked /\ PathParked /\ NodeParked

BackOffPolicyNext ==
    \/ \E dur \in CallDurations, draw \in RandomDraws :
           RetryNextBackOff(dur, draw)
               /\ UNCHANGED <<sessVars, gateVars, createVars, followVars, renderVars, viewVars, listVars, urlVars, jobVars, pathVars, nodeVars>>

SpecBackOff == BackOffPolicyInitAll /\ [][BackOffPolicyNext]_vars

\* The node IDs of database IDs.
NodeInitAll == NodeInit /\ SessParked /\ GateParked /\ CreateParked /\ FollowParked /\ RenderParked /\ ViewParked /\ ListParked /\ URLParked /\ JobParked /\ BackOffParked /\ PathParked

NodeNext ==
    \/ \E repoID \in Int64s, pullRequestID \in Int64s, userID \in Int64s :
           GenerateNodeIDs(repoID, pullRequestID, userID)
               /\ UNCHANGED <<sessVars, gateVars, createVars, followVars, renderVars, viewVars, listVars, urlVars, jobVars, backoffVars, pathVars>>

SpecNodeIDs == NodeInitAll /\ [][NodeNext]_vars

\* The paths of tool calls as they are shown.
PathInitAll == PathInit /\ SessParked /\ GateParked /\ CreateParked /\ FollowParked /\ RenderParked /\ ViewParked /\ ListParked /\ URLParked /\ JobParked /\ BackOffParked /\ NodeParked

PathNext ==
    \/ \E path \in ToolPaths :
           RenderToolCallPath(path)
               /\ UNCHANGED <<sessVars, gateVars, createVars, followVars, renderVars, viewVars, listVars, urlVars, jobVars, backoffVars, nodeVars>>

SpecPaths == PathInitAll /\ [][PathNext]_vars

\* The request that submits a job.
JobInitAll == JobInit /\ SessParked /\ GateParked /\ CreateParked /\ FollowParked /\ RenderParked /\ ViewParked /\ ListParked /\ URLParked /\ BackOffParked /\ PathParked /\ NodeParked

JobNext ==
    \/ \E owner \in PathInputs, repo \in PathInputs, d \in Descriptions, b \in BaseBranches :
           CreateJob(owner, repo, d, b)
               /\ UNCHANGED <<sessVars, gateVars, createVars, followVars, renderVars, viewVars, listVars, urlVars, backoffVars, pathVars, nodeVars>>

SpecJob == JobInitAll /\ [][JobNext]_vars

\* ---------------------------------------------------------------- claims
Done == pc = "done"
Succeeded == pc = "done" /\ err = NoError
CeilDiv(a, b) == (a + b - 1) \div b
IDsOf(q) == [i \in DOMAIN q |-> q[i].ID]

\* k = min(limit, totalAvailable)
K == Min(limit, Len(server))

\* The arguments of the call in progress pass the operation's validation.
ArgsValid ==
    /\ op = "ListSessionsForRepo" => args.owner # "" /\ args.repo # ""
    /\ op = "ListSessionsByResourceID" => args.resourceType # "" /\ args.resourceID # 0

\* C1 as stated: a list operation that succeeds has issued exactly
\* ceil(k / pageSize) page requests, k = min(limit, totalAvailable), and
\* returns the first k sessions of the server in source order.
C1_PagesAreCeilOfK ==
    (Succeeded /\ op \in ListOps) =>
        /\ restCalls = CeilDiv(K, defaultSessionsPerPage)
        /\ IDsOf(result) = IDsOf(SubSeq(server, 1, K))

\* C1 amended: a list operation that succeeds returns the first k sessions in
\* source order; it has issued ceil(k / pageSize) page requests, and one more
\* (an empty last page) when limit > 0, totalAvailable < limit and
\* totalAvailable is a multiple of pageSize.
C1_PagesAndItems ==
    (Succeeded /\ op \in ListOps) =>
        /\ restCalls =
              IF limit > 0 /\ Len(server) < limit
                           /\ Len(server) % defaultSessionsPerPage = 0
              THEN Len(server) \div defaultSessionsPerPage + 1
              ELSE CeilDiv(K, defaultSessionsPerPage)
        /\ IDsOf(result) = IDsOf(SubSeq(server, 1, K))

\* A listing of several pages that ends on an empty page.
C1_Witness ==
    /\ Succeeded /\ op \in ListOps
    /\ restCalls >= 2 /\ Len(result) >= 2
    /\ Len(server) < limit
    /\ ServerPage(restCalls, pageSize) = <<>>

\* C2: a page is requested only while fewer than limit sessions are
\* accumulated, and a list operation that succeeds after the server delivered
\* limit sessions or more returns exactly limit sessions.
C2_StopAtLimitAndTruncate ==
    /\ [][(op \in ListOps /\ restCalls' = restCalls + 1) => Len(sessions) < limit]_sessVars
    /\ []((Succeeded /\ op \in ListOps /\ delivered >= limit) => Len(result) = limit)

\* The final page delivered sessions beyond the limit, which were dropped.
C2_Witness ==
    /\ Succeeded /\ op \in ListOps
    /\ restCalls >= 2
    /\ delivered > limit
    /\ Len(result) = limit

HydratingOps == ListOps \cup {"GetSession"}

\* Pages 1..n of the server, concatenated in request order.
RECURSIVE ConcatPages(_)
ConcatPages(n) ==
    IF n = 0 THEN <<>> ELSE ConcatPages(n - 1) \o ServerPage(n, pageSize)

\* C4: the raw sessions of a list operation are pages 1..n concatenated in
\* request order (cut at limit once the loop has ended), and hydration returns
\* one session per raw session with the same ID at the same index.
C4_OrderPreserved ==
    /\ (pc = "paging" /\ op \in ListOps) => sessions = ConcatPages(page)
    /\ ((pc = "hydrate" \/ Succeeded) /\ op \in ListOps /\ limit > 0) =>
           sessions = SubSeq(ConcatPages(page), 1, Min(limit, Len(ConcatPages(page))))
    /\ (Succeeded /\ op \in HydratingOps) =>
           /\ Len(result) = Len(sessions)
           /\ \A i \in DOMAIN result : result[i].ID = sessions[i].ID

\* A hydrated listing of two pages whose first two sessions differ.
C4_Witness ==
    /\ Succeeded /\ op \in ListOps
    /\ page >= 2 /\ Len(result) >= 2
    /\ result[1].UserID # result[2].UserID
    /\ result[1].ResourceType # result[2].ResourceType

\* The hydration response holds a pull request with the database ID n.
ResponseHasPR(n) ==
    \E j \in DOMAIN respNodes :
        /\ respNodes[j].TypeName = "PullRequest"
        /\ respNodes[j].PullRequest.FullDatabaseID = ServerDecimal(n)

\* C5: in a successful call, a "pull" session whose pull request is in the
\* hydration response carries a PullRequest whose FullDatabaseID is the decimal
\* form of its ResourceID, and a session with no pull request of its ResourceID
\* in the response carries none.
C5_HydrationJoin ==
    (Succeeded /\ op \in HydratingOps) =>
        \A i \in DOMAIN result :
            /\ (result[i].ResourceType = "pull" /\ ResponseHasPR(result[i].ResourceID)) =>
                   /\ result[i].PullRequest # Nil
                   /\ result[i].PullRequest.FullDatabaseID = ServerDecimal(result[i].ResourceID)
            /\ ~ResponseHasPR(result[i].ResourceID) => result[i].PullRequest = Nil

\* A successful call with one "pull" session joined to its pull request and
\* another "pull" session whose pull request the server did not resolve.
C5_Witness ==
    /\ Succeeded /\ op \in ListOps
    /\ \E i, j \in DOMAIN result :
           /\ result[i].ResourceType = "pull" /\ result[i].ResourceID = 2000
           /\ result[i].PullRequest # Nil
           /\ result[j].ResourceType = "pull" /\ result[j].PullRequest = Nil

\* C6 as stated: a hydrated session carries a pull request only if its
\* ResourceType is "pull".
C6_OnlyPullSessionsCarryPR ==
    (Succeeded /\ op \in HydratingOps) =>
        \A i \in DOMAIN result :
            result[i].PullRequest # Nil => result[i].ResourceType = "pull"

RangeOf(q) == {q[i] : i \in DOMAIN q}

\* C7 as stated: the IDs of the hydration query are one PR node ID per
\* distinct (RepoID, ResourceID) of the "pull" sessions with RepoID != 0 and
\* one user node ID per distinct non-zero UserID, none twice.
C7_QueryIDsExact ==
    (Done /\ gqlCalls = 1) =>
        /\ RangeOf(queryIDs) =
              {generatePullRequestNodeID(sessions[i].RepoID, sessions[i].ResourceID) :
                  i \in {j \in DOMAIN sessions :
                            sessions[j].ResourceType = "pull" /\ sessions[j].RepoID # 0}}
              \cup {generateUserNodeID(sessions[i].UserID) :
                      i \in {j \in DOMAIN sessions : sessions[j].UserID # 0}}
        /\ Len(queryIDs) = Cardinality(RangeOf(queryIDs))

\* Every Copilot API request of the finished call succeeded.
RestSucceeded ==
    \/ err = NoError
    \/ ErrorsIs(err, "failed to fetch session resources")

\* C8: a list or get-session call whose Copilot API requests succeeded has
\* issued exactly one GraphQL query if it obtained at least one raw session,
\* and none if it obtained no session; no call issues more than one.
C8_OneHydrationQuery ==
    /\ gqlCalls <= 1
    /\ (Done /\ op \in HydratingOps /\ RestSucceeded) =>
           gqlCalls = IF Len(sessions) >= 1 THEN 1 ELSE 0

\* A listing of several pages and several sessions hydrated by one query.
C8_Witness ==
    /\ Succeeded /\ op \in ListOps
    /\ page >= 2 /\ Len(sessions) >= 3
    /\ gqlCalls = 1

\* C9: when the hydration query of a list operation fails, the operation
\* returns no session and an error that wraps the query's error under
\* "failed to fetch session resources".
C9_HydrationFailureFailsCall ==
    (Done /\ op \in ListOps /\ gqlErr # NoError) =>
        /\ result = <<>>
        /\ err = Wrap("failed to fetch session resources", gqlErr)
        /\ ErrorsIs(err, gqlErr[1])

\* The hydration of a listing of two sessions or more failed.
C9_Witness ==
    /\ Done /\ op \in ListOps
    /\ gqlErr # NoError
    /\ Len(sessions) >= 2

\* C10: for a non-empty session ID, a 404 response to GetSession gives an
\* error that matches ErrSessionNotFound, and every other non-200 response
\* gives an error that does not match it.
C10_NotFoundSentinel ==
    (Done /\ op = "GetSession" /\ args.id # <<>> /\ getStatus # 0) =>
        /\ getStatus = 404 => ErrorsIs(err, ErrSessionNotFound)
        /\ getStatus \notin {200, 404} =>
               (err # NoError /\ ~ErrorsIs(err, ErrSessionNotFound))

\* GetSession got a 404 for the ID of a session the server does hold.
C10_Witness ==
    /\ Done /\ op = "GetSession"
    /\ getStatus = 404
    /\ \E i \in DOMAIN server : server[i].ID = args.id
    /\ ErrorsIs(err, ErrSessionNotFound)

NeverReady == getLog # <<>> /\ \A i \in DOMAIN getLog : getLog[i] = "not ready"

\* C12: with a zero-interval policy capped at 3 retries and GetJob never
\* returning a pull request, a finished run made exactly 1 CreateJob call and
\* exactly 4 GetJob calls and printed the fallback line and nothing else.
C12_OneCreateFourGets ==
    (cpc = "returned" /\ BackOff.kind = "maxRetries" /\ BackOff.maxTries = 3 /\ NeverReady)
        => /\ createCalls = 1
           /\ getCalls = 4
           /\ Len(getLog) = 4
           /\ stdout = <<[kind |-> "job queued", number |-> 0, session |-> "",
                          job |-> "job123", err |-> NoError]>>
           /\ cerr = NoError

C12_Witness ==
    /\ cpc = "returned"
    /\ BackOff.kind = "maxRetries"
    /\ BackOff.maxTries = 3
    /\ NeverReady
    /\ getCalls = 4

\* The session URL of a job, as the tests expect it.
ExpectedURL(j) ==
    [kind |-> IF j.SessionID = "" THEN "pull-url" ELSE "session-url",
     number |-> j.PullRequest.Number, session |-> j.SessionID, job |-> "",
     err |-> NoError]

\* CreateJob returned a job that already has a pull request number.
CreatedWithPR == job # NoJob /\ job.PullRequest # Nil /\ job.PullRequest.Number > 0

\* C13: when the job CreateJob returned has PullRequest.Number > 0, the run
\* has ended with success, its output is that job's URL, and no GetJob call
\* was made.
C13_ImmediatePRNoPolling ==
    CreatedWithPR
        => /\ cpc = "returned"
           /\ cerr = NoError
           /\ getCalls = 0
           /\ getLog = <<>>
           /\ stdout = <<ExpectedURL(job)>>

C13_Witness ==
    /\ CreatedWithPR
    /\ job.SessionID = "sess1"
    /\ cpc = "returned"
    /\ stdout = <<ExpectedURL(job)>>

\* C14: when a GetJob call of the polling returned an error, it was the last
\* GetJob call, the error is the one line on stderr, the fallback line is the
\* one line on stdout, and the run has ended with success.
C14_GetJobErrorEndsPolling ==
    (\E i \in DOMAIN getLog : getLog[i] = "error")
        => /\ \A i \in DOMAIN getLog : getLog[i] = "error" <=> i = Len(getLog)
           /\ getCalls = Len(getLog)
           /\ cpc = "returned"
           /\ cerr = NoError
           /\ stderr = <<[kind |-> "error", number |-> 0, session |-> "", job |-> "",
                          err |-> <<"some API error">>]>>
           /\ stdout = <<[kind |-> "job queued", number |-> 0, session |-> "",
                          job |-> "job123", err |-> NoError]>>

\* The second GetJob call failed.
C14_Witness ==
    /\ getLog = <<"not ready", "error">>
    /\ cpc = "returned"
    /\ getCalls = 2

\* C15: after CreateJob succeeded the run ends, with success and with exactly
\* one line on stdout, the job's URL or the fallback line; when the polling
\* budget ran out nothing is reported as an error.
C15_DoneOrFallback ==
    /\ [](( cpc = "returned" /\ job # NoJob )
            => /\ cerr = NoError
               /\ Len(stdout) = 1
               /\ stdout[1].kind \in {"session-url", "pull-url", "job queued"}
               /\ stdout[1].kind = "job queued" => stdout[1].job = job.ID
               /\ (getLog = <<>> \/ NeverReady) => stderr = <<>>)
    /\ (job # NoJob) ~> (cpc = "returned")

\* The policy createRun builds ran out of time and the fallback line was
\* printed.
C15_Witness ==
    /\ cpc = "returned"
    /\ BackOff.kind = "exponential"
    /\ NeverReady
    /\ Len(stdout) = 1
    /\ stdout[1].kind = "job queued"
    /\ cerr = NoError

\* C16: in an interactive run CreateJob is called only when the confirmation
\* was answered yes; when it was answered no, no API call was made and the
\* run has ended with an error.
C16_ConfirmBeforeSubmit ==
    canPrompt
        => /\ createCalls > 0 => confirmed = "yes"
           /\ confirmed = "no"
                => (createCalls = 0 /\ getCalls = 0 /\ cpc = "returned" /\ cerr # NoError)

C16_Witness ==
    /\ canPrompt
    /\ confirmed = "no"
    /\ cpc = "returned"
    /\ cerr = SilentError
    /\ createCalls = 0

\* The description as it came from its origin: the positional argument, else
\* the editor, else the file or standard input.
DescriptionGiven ==
    IF cArgs # <<>> THEN cArgs[1]
    ELSE IF edited.asked /\ ~edited.err THEN edited.text
    ELSE IF fileContent.asked /\ ~fileContent.err THEN fileContent.text
    ELSE <<>>

OnlyWhitespace(s) == s # <<>> /\ \A i \in DOMAIN s : s[i] \in {" ", "\n"}

\* The run stopped before it looked at the description.
FailedBeforeDescription ==
    cerr # NoError /\ cerr # SilentError /\ Len(stdout) = 0 /\ createCalls = 0

\* C17: a description of whitespace only, whatever its origin, never leads to
\* a CreateJob call, and the run that looked at it ended with "a task
\* description is required".
C17_WhitespaceIsEmpty ==
    (cpc \notin {"start", "createRun"} /\ OnlyWhitespace(DescriptionGiven))
        => /\ createCalls = 0
           /\ ~FailedBeforeDescription
                => (cerr = SilentError /\ stderr = <<RequiredLine>>)

\* C18: CreateJob is called at most once in a run, and when it failed the
\* run has ended with its error, without a GetJob call and with nothing on
\* stdout.
C18_SubmitOnceNoRetry ==
    /\ createCalls <= 1
    /\ (createCalls = 1 /\ cpc # "CreateJob" /\ job = NoJob)
         => /\ cpc = "returned"
            /\ cerr = <<"some API error">>
            /\ getCalls = 0
            /\ getLog = <<>>
            /\ stdout = <<>>

C18_Witness ==
    /\ createCalls = 1
    /\ cpc = "returned"
    /\ job = NoJob
    /\ cerr = <<"some API error">>

\* What the fetcher returned last.
Fetched == SubSeq(fullLog, 1, fcut)

\* The objects of the whole lines of a content, in order.
RecordsOf(content) ==
    LET whole == SelectSeq(SplitLines(content, <<>>),
                           LAMBDA line : Len(line) = 3 /\ line[1] = "D" /\ line[3] = "}")
    IN [i \in DOMAIN whole |-> whole[i][2]]

RECURSIVE UpToStop(_)
UpToStop(records) ==
    IF records = <<>> THEN <<>>
    ELSE IF Head(records) = "stop" THEN <<"stop">>
    ELSE <<Head(records)>> \o UpToStop(Tail(records))

Chunks(records) == SelectSeq(records, LAMBDA e : e \in {"chunkA", "chunkB", "stop"})

StopDelivered == \E i \in DOMAIN RecordsOf(Fetched) : RecordsOf(Fetched)[i] = "stop"

\* No record up to the stop chunk is one that renderLogEntry fails on.
RendersUpToStop ==
    \A i \in DOMAIN UpToStop(RecordsOf(Fetched)) : UpToStop(RecordsOf(Fetched))[i] # "bad"

IsPrefix(s, t) == Len(s) <= Len(t) /\ s = SubSeq(t, 1, Len(s))

C21_FetchErrorEndsFollow ==
    /\ [](fetchErr # NoError => fpc = "returned" /\ ferr = fetchErr)
    /\ [][fpc = "returned" => fetches' = fetches]_vars

\* A fetch fails after content was already rendered.
C21_Witness ==
    /\ fetchErr # NoError
    /\ fetches >= 2
    /\ rendered # <<>>
    /\ fpc = "returned"

\* C22: in follow mode the poll interval is not slept before the first
\* fetch and is slept once before every later one: n fetches, n - 1 sleeps.
C22_SleepsBetweenFetches ==
    sleeps = IF fetches = 0 THEN 0 ELSE fetches - 1

\* Several fetches were made, one of them returning unchanged content.
C22_Witness ==
    /\ fetches >= 3
    /\ sleeps = fetches - 1
    /\ rendered # <<>>

\* The non-empty lines of the log handed to Render.
GivenLines == SelectSeq(SplitLines(rLogs, <<>>), LAMBDA line : line # <<>>)

\* A non-empty line that starts with the "data: " prefix.
Framed(line) == Head(line) = "D"

\* The kind of the chat completion chunk a line holds, "" when the line is
\* not a well-framed chunk.
ChunkOf(line) ==
    IF Len(line) = 3 /\ line[1] = "D" /\ line[3] = "}"
       /\ line[2] \in {"chunkA", "chunkB", "stop", "stopFirst", "bad"}
    THEN line[2] ELSE ""

\* What a faultless run writes for the lines: the chunks in order, up to
\* the first badly framed line, unprocessable chunk or stop chunk.
RECURSIVE ExpectedOut(_)
ExpectedOut(lines) ==
    IF lines = <<>> \/ ~Framed(Head(lines)) \/ ChunkOf(Head(lines)) = "bad" THEN <<>>
    ELSE IF ChunkOf(Head(lines)) = "" THEN ExpectedOut(Tail(lines))
    ELSE IF ChunkOf(Head(lines)) = "stop" THEN <<"stop">>
    ELSE IF ChunkOf(Head(lines)) = "stopFirst" THEN <<"stopFirst", "afterStop">>
    ELSE <<ChunkOf(Head(lines))>> \o ExpectedOut(Tail(lines))

\* Records that are not chunks leave no trace: nothing of them is written,
\* and a log of well-framed records none of which is a chunk renders to
\* nothing without an error.
OthersSkipped ==
    /\ \A i \in DOMAIN rOut : rOut[i] \in {"chunkA", "chunkB", "stop", "stopFirst", "afterStop"}
    /\ (\A i \in DOMAIN GivenLines :
            Framed(GivenLines[i]) /\ ChunkOf(GivenLines[i]) = "")
        => rErr = NoError /\ rOut = <<>> /\ ~rStop

\* C23 as stated: Render fails only when some non-empty line lacks the
\* "data: " prefix, and records that are not chat completion chunks are
\* skipped without error and without output.
C23_OnlyFramingFails ==
    rpc = "rendered" =>
        /\ rErr # NoError => \E i \in DOMAIN GivenLines : ~Framed(GivenLines[i])
        /\ OthersSkipped

\* C23 as amended: Render fails with "unexpected log format" on a non-empty
\* line without the prefix and with "failed to process log entry" on a
\* chunk that cannot be processed, and in no other case; records that are
\* not chat completion chunks are skipped without error and without output.
C23_FramingOrEntryFails ==
    rpc = "rendered" =>
        /\ rErr # NoError =>
              \/ /\ rErr = <<"unexpected log format">>
                 /\ \E i \in DOMAIN GivenLines : ~Framed(GivenLines[i])
              \/ /\ rErr[1] = "failed to process log entry"
                 /\ \E i \in DOMAIN GivenLines : ChunkOf(GivenLines[i]) = "bad"
        /\ (\A i \in DOMAIN GivenLines :
                Framed(GivenLines[i]) /\ ChunkOf(GivenLines[i]) # "bad")
            => rErr = NoError
        /\ rOut = ExpectedOut(GivenLines)
        /\ OthersSkipped

\* A record of another type and a record with cut JSON are skipped around a
\* chunk that is written.
C23_Witness ==
    /\ rpc = "rendered"
    /\ rErr = NoError
    /\ rOut = <<"chunkA">>
    /\ Len(GivenLines) = 3
    /\ \E i \in DOMAIN GivenLines : GivenLines[i] = <<"D", "other", "}">>
    /\ \E i \in DOMAIN GivenLines : GivenLines[i] = <<"D", "chunkB">>

\* The display string the documentation gives for a session state.
DocumentedDisplay(state) ==
    CASE state = "queued" -> "Queued"
      [] state = "in_progress" -> "In Progress"
      [] state = "completed" -> "Completed"
      [] state = "failed" -> "Failed"
      [] state \in {"canceled", "cancelled"} -> "Canceled"
      [] state = "idle" -> "Idle"
      [] state = "waiting_for_user" -> "Waiting for User"
      [] state = "timed_out" -> "Timed Out"
      [] OTHER -> state

DocumentedStates ==
    {"queued", "in_progress", "completed", "failed", "canceled", "cancelled",
     "idle", "waiting_for_user", "timed_out"}

\* C24: the summary of a session shows the documented display string of its
\* state (canceled and cancelled both as "Canceled"), and a state that is
\* not documented verbatim in the muted colour.
C24_StateDisplay ==
    printed # <<>> =>
        /\ printed[1].state = DocumentedDisplay(session.State)
        /\ session.State \notin DocumentedStates => printed[1].color = "Muted"

\* The selector is a UUID or a URL of the agent-sessions shape.
SelectorIsSession == SelectorArg \in UUIDs \/ SelectorArg = SessionURL

\* The run passed the checks of its arguments and has a client.
ViewStarted ==
    /\ vpc # "start"
    /\ verr \notin {<<"session ID is required when not running interactively">>,
                    <<"--log is required when providing --follow">>,
                    <<"client error">>}

\* C25: for a selector that is a UUID or an agent-sessions URL, a run that
\* passed its argument checks and has a client calls GetSession exactly once,
\* for the ID of the selector, never resolves a pull request, never lists
\* sessions by resource and never prompts.
C25_DirectFetch ==
    SelectorIsSession =>
        /\ pullRequestCalls = 0
        /\ listCalls = <<>>
        /\ promptCalls = 0
        /\ ViewStarted =>
              /\ getSessionCalls = 1
              /\ optsSessionID = IF SelectorArg = SessionURL
                                   THEN "00000000-0000-0000-0000-000000000000"
                                   ELSE SelectorArg

\* A session given by its URL was fetched and shown.
C25_Witness ==
    /\ SelectorArg = SessionURL
    /\ vpc = "done"
    /\ getSessionCalls = 1
    /\ printed # <<>>

ExpectedWebURL ==
    IF optsSessionID # ""
    THEN IF sess.PullRequest # Nil
         THEN sess.PullRequest.URL \o <<"/agent-sessions/">> \o PathEscape(sess.ID)
         ELSE <<"https://github.com/copilot/agents">>
    ELSE prURL \o <<"/agent-sessions">>

\* C27: with --web no logs are fetched and nothing is rendered, at most one
\* URL is opened, and a run that ends without an error has opened exactly
\* the URL that belongs to what was resolved.
C27_WebOpensOneURL ==
    Web =>
        /\ logFetches = 0
        /\ vpc # "logs"
        /\ printed = <<>>
        /\ Len(browsed) <= 1
        /\ vpc = "done" /\ verr = NoError => browsed = <<ExpectedWebURL>>

\* --web with --log for a session on a pull request, its ID needing encoding.
C27_Witness ==
    /\ Web
    /\ Log
    /\ vpc = "done"
    /\ sess.PullRequest # Nil
    /\ browsed = <<PullRequestURL \o <<"/agent-sessions/", "a", "%2F", "b">>>>

\* The no-results error of the list command.
NoResultsError == <<"no agent tasks found">>

\* C28: when the listing returns zero sessions without an error, list
\* writes nothing to stdout and fails with the no-results error "no agent
\* tasks found".
C28_EmptyListIsNoResults ==
    lpc = "done" /\ lCalls # <<>> /\ lSessions = <<>> /\ lErr # <<"some error">> =>
        /\ lOut = <<>>
        /\ lErr = NoResultsError

\* BaseRepo gave a repository with an owner and a name.
RepoResolved ==
    /\ lBase.fn
    /\ lBase.err = NoError
    /\ lBase.repo # Nil
    /\ lBase.repo.owner # ""
    /\ lBase.repo.name # ""

\* C29: a run of list that has a client makes exactly one list call: for
\* the sessions of the repository when one is resolved, for the viewer's
\* sessions otherwise; the error of the repository resolution is never the
\* error of the run.
C29_OneListCallByScope ==
    /\ lErr # <<"ambiguous repo">>
    /\ Len(lCalls) <= 1
    /\ lpc # "start" /\ lErr # <<"client error">> =>
           /\ Len(lCalls) = 1
           /\ lCalls[1].limit = lLimit
           /\ IF RepoResolved
              THEN /\ lCalls[1].op = "ListSessionsForRepo"
                   /\ lCalls[1].owner = lBase.repo.owner
                   /\ lCalls[1].repo = lBase.repo.name
              ELSE lCalls[1].op = "ListSessionsForViewer"

\* The repository could not be resolved and the viewer's sessions were
\* listed and written.
C29_Witness ==
    /\ lBase.err = <<"ambiguous repo">>
    /\ lpc = "done"
    /\ lCalls # <<>>
    /\ lCalls[1].op = "ListSessionsForViewer"
    /\ lErr = NoError
    /\ Len(lOut) >= 2

\* Characters that have a meaning of their own in a URL.
ReservedChars == {"/", " ", "?", "#", "%"}

\* How many pieces of url are a reserved character standing for itself.
ReservedIn(url) == Cardinality({i \in DOMAIN url : url[i] \in ReservedChars})

\* The "/" each operation puts between the components it takes from its
\* caller (the fixed text before and after them is not counted).
SeparatorsOf(o) ==
    CASE o = "ListSessionsForRepo" -> 1
      [] o = "ListSessionsByResourceID" -> 1
      [] o = "GetSession" -> 0
      [] o = "GetSessionLogs" -> 0
      [] o = "CreateJob" -> 2
      [] o = "GetJob" -> 3

\* C30: every path component taken from the caller (owner, repository name,
\* session ID, resource type, job ID) is percent-encoded before it is placed
\* in the request URL: the only reserved characters of a request URL are the
\* separators the operation wrote itself.
C30_PathComponentsEncoded ==
    upc = "requested" => ReservedIn(uURL) = SeparatorsOf(uOp)

C32_WaitsNonDecreasing ==
    \A i, j \in DOMAIN waits :
        i < j => /\ waits[i].wait <= waits[j].wait
                 /\ waits[i].wait >= MaxInterval => waits[j].wait = MaxInterval

\* C32, amended: the interval of the policy starts at 300 ms, is multiplied
\* by 1.5 after every wait, never decreases and never exceeds the maximum
\* interval of 10 s; a wait is drawn from half to one and a half times the
\* interval of its turn (the default randomization of the policy).
C32_IntervalsNonDecreasing ==
    /\ \A i \in DOMAIN waits :
           /\ waits[i].interval <= MaxInterval
           /\ waits[i].wait >= waits[i].interval - waits[i].interval \div 2
           /\ waits[i].wait <= waits[i].interval + waits[i].interval \div 2
           /\ i = 1 => waits[i].interval = InitialInterval
           /\ i > 1 => /\ waits[i].interval >= waits[i - 1].interval
                       /\ \/ waits[i].interval = MaxInterval
                          \/ waits[i].interval =
                                 (waits[i - 1].interval * MultiplierNum) \div MultiplierDen

\* Three waits taken, the second shorter than the first.
C32_Witness ==
    /\ Len(waits) >= 3
    /\ waits[2].wait < waits[1].wait
    /\ waits[2].interval > waits[1].interval

\* A reference decoder: base64url without padding, then msgpack.
Base64Value(c) == (CHOOSE i \in DOMAIN Base64URLChars : Base64URLChars[i] = c) - 1

RECURSIVE Base64Bytes(_)
Base64Bytes(v) ==
    IF Len(v) < 2 THEN <<>>
    ELSE IF Len(v) = 2 THEN <<v[1] * 4 + v[2] \div 16>>
    ELSE IF Len(v) = 3 THEN <<v[1] * 4 + v[2] \div 16, (v[2] % 16) * 16 + v[3] \div 4>>
    ELSE <<v[1] * 4 + v[2] \div 16, (v[2] % 16) * 16 + v[3] \div 4, (v[3] % 4) * 64 + v[4]>>
             \o Base64Bytes(SubSeq(v, 5, Len(v)))

Base64RawURLDecode(chars) == Base64Bytes([i \in DOMAIN chars |-> Base64Value(chars[i])])

\* The limbs of an unsigned big-endian number of at most eight bytes.
LimbsOf(bytes) ==
    LET padded == [i \in 1..(8 - Len(bytes)) |-> 0] \o bytes
    IN [k \in 1..4 |-> padded[2 * k - 1] * 256 + padded[2 * k]]

MsgpackWidth(b) ==
    CASE b = 204 -> 1 [] b = 205 -> 2 [] b = 206 -> 4 [] b = 207 -> 8 [] OTHER -> 0

RECURSIVE MsgpackInts(_)
MsgpackInts(bytes) ==
    IF bytes = <<>> THEN <<>>
    ELSE LET w == MsgpackWidth(Head(bytes))
         IN IF w = 0
            THEN <<LimbsOf(<<Head(bytes)>>)>> \o MsgpackInts(Tail(bytes))
            ELSE <<LimbsOf(SubSeq(bytes, 2, w + 1))>>
                     \o MsgpackInts(SubSeq(bytes, w + 2, Len(bytes)))

\* The array a node ID encodes after its prefix; empty when the header does
\* not give the number of elements that follow.
DecodeNodeID(id, prefix) ==
    LET bytes == Base64RawURLDecode(SubSeq(id, Len(prefix) + 1, Len(id)))
        parts == MsgpackInts(Tail(bytes))
    IN IF SubSeq(id, 1, Len(prefix)) = prefix /\ Head(bytes) = 144 + Len(parts)
       THEN parts ELSE <<>>

\* The value of an ID that fits a number here.
Small(id) == id[1] = 0 /\ id[2] = 0 /\ id[3] < 32768

ValueOf(id) == id[3] * 65536 + id[4]

\* C33: node ID encoding is total and round-trips for non-negative 64-bit
\* inputs: decoding the pull request node ID of (r, p) gives [0, r, p] and
\* decoding the user node ID of u gives [0, u], so distinct inputs give
\* distinct IDs; the node IDs of (1000, 2000) and of user 1 are
\* "PR_kwDNA-jNB9A" and "U_kgAB"; on the IDs the session operations handle
\* as numbers the encoding is the same.
C33_NodeIDRoundTrip ==
    npc = "generated" =>
        /\ DecodeNodeID(nPullRequestNodeID, <<"P", "R", "_">>)
               = <<Int64(0), nRepoID, nPullRequestID>>
        /\ DecodeNodeID(nUserNodeID, <<"U", "_">>) = <<Int64(0), nUserID>>
        /\ (nRepoID = Int64(1000) /\ nPullRequestID = Int64(2000)) =>
               nPullRequestNodeID = <<"P", "R", "_", "k", "w", "D", "N", "A", "-", "j",
                                      "N", "B", "9", "A">>
        /\ nUserID = Int64(1) => nUserNodeID = <<"U", "_", "k", "g", "A", "B">>
        /\ (Small(nRepoID) /\ Small(nPullRequestID)) =>
               nPullRequestNodeID
                   = generatePullRequestNodeID(ValueOf(nRepoID), ValueOf(nPullRequestID))
        /\ Small(nUserID) => nUserNodeID = generateUserNodeID(ValueOf(nUserID))

\* A pull request node ID of a repository ID above 32 bits and the largest
\* pull request ID was generated.
C33_Witness ==
    /\ npc = "generated"
    /\ nRepoID = <<0, 1, 0, 0>>
    /\ nPullRequestID = <<32767, 65535, 65535, 65535>>
    /\ nUserID = Int64(128)
    /\ Len(nPullRequestNodeID) > 20

\* C34: cancelling the command while it is blocked (in an HTTP call, in the
\* wait between polls of create, in the sleep of the log follow loop) ends
\* the wait and terminates the command with a non-zero exit; for the follow
\* loop: a run that was cancelled never ends without an error.
C34_CancelEndsWithError ==
    (cancelRequested /\ fpc = "returned") => ferr # NoError

\* The path is under the root of the working copies.
UnderAgentRoot(path) == path # <<>> /\ Head(path) = "/home/runner/work/"

\* The segments of a path under the root that follow owner and repository.
SegmentsAfterRepo(path) ==
    LET segments == SplitPath(Tail(path), <<>>)
    IN SubSeq(segments, 3, Len(segments))

\* C35: a path under /home/runner/work/ is shown with the agent root, the
\* owner and the repository dropped, and as "repository" when no segment
\* remains after them; a path that is not under that prefix is shown as it
\* is.
C35_OnlyAgentPathsRewritten ==
    ppc = "shown" =>
        IF UnderAgentRoot(absPath)
        THEN IF SegmentsAfterRepo(absPath) = <<>>
             THEN shownPath = <<"repository">>
             ELSE shownPath = JoinPath(SegmentsAfterRepo(absPath))
        ELSE shownPath = absPath

\* C36: the repo-scoped list operation with an empty owner or repo, and the
\* resource-scoped list operation with an empty type or a zero ID, return an
\* error and issue no request, for every limit, limit == 0 included.
C36_ValidationBeforeShortcut ==
    /\ (Done /\ op = "ListSessionsForRepo" /\ (args.owner = "" \/ args.repo = "")) =>
           /\ err = <<"owner and repo are required">>
           /\ result = <<>>
           /\ restCalls = 0 /\ gqlCalls = 0
    /\ (Done /\ op = "ListSessionsByResourceID"
            /\ (args.resourceType = "" \/ args.resourceID = 0)) =>
           /\ err = <<"missing resource type/ID">>
           /\ result = <<>>
           /\ restCalls = 0 /\ gqlCalls = 0

\* A listing by resource with a zero ID and limit 0 was rejected.
C36_Witness ==
    /\ Done /\ op = "ListSessionsByResourceID"
    /\ args.resourceType = "pull" /\ args.resourceID = 0
    /\ limit = 0
    /\ err # NoError

\* A resolution by reference gave the database ID 0 and the finder was asked
\* after it.
ZeroDatabaseID == databaseIDCalls > 0 /\ pullRequestCalls > databaseIDCalls

\* C37: when the pull request selector resolves to a repository on a host
\* other than github.com, view fails with "agent tasks are not supported on
\* this host" and has made no call of the Copilot API client: no resolution
\* of a database ID, no listing by resource, no fetch of a session or of its
\* logs. Read for runs in which a resolution of a database ID that succeeds
\* gives a positive ID.
C37_ForeignHostNoClientCall ==
    (hostname \notin {"", "github.com"} /\ ~ZeroDatabaseID) =>
        /\ vpc = "done"
        /\ verr = <<"agent tasks are not supported on this host: ", hostname>>
        /\ databaseIDCalls = 0
        /\ listCalls = <<>>
        /\ getSessionCalls = 0
        /\ logFetches = 0
        /\ browsed = <<>> /\ printed = <<>>

\* The reference OWNER/REPO#42 was given in a repository of another host.
C37_Witness ==
    /\ vpc = "done"
    /\ SelectorArg = "OWNER/REPO#42"
    /\ hostname = "something.ghes.com"
    /\ pullRequestCalls = 0

\* The chunks that carry a choice with finish_reason "stop".
StopChunks == {"stop", "stopFirst"}

\* What the chunks of the first n lines write, every choice of each.
RECURSIVE WrittenBy(_, _)
WrittenBy(lines, n) ==
    IF n = 0 THEN <<>>
    ELSE LET cs == Choices(ChunkOf(lines[n]))
         IN WrittenBy(lines, n - 1)
                \o (IF ChunkOf(lines[n]) = "" THEN <<>>
                    ELSE [i \in DOMAIN cs |-> cs[i].text])

\* C38: within one batch given to Render, every choice of the chunk that
\* carries finish_reason "stop" is rendered before the end of the stream is
\* signalled, and no record that follows that chunk in the batch is
\* rendered: what was written ends with the last choice of the first such
\* chunk.
C38_StopChunkRenderedWhole ==
    (rpc = "rendered" /\ rStop) =>
        /\ rErr = NoError
        /\ \E i \in DOMAIN GivenLines :
              /\ ChunkOf(GivenLines[i]) \in StopChunks
              /\ \A j \in 1..(i - 1) : ChunkOf(GivenLines[j]) \notin StopChunks
              /\ rOut = WrittenBy(GivenLines, i)

\* The chunk whose first choice has finish_reason "stop" was written with
\* its second choice, and the chunk after it was not.
C38_Witness ==
    /\ rpc = "rendered" /\ rStop
    /\ Len(GivenLines) = 3
    /\ ChunkOf(GivenLines[1]) = "chunkA"
    /\ ChunkOf(GivenLines[2]) = "stopFirst"
    /\ ChunkOf(GivenLines[3]) = "chunkB"
    /\ rOut = <<"chunkA", "stopFirst", "afterStop">>

\* C39: for every sequence of fetcher results, one shorter than the content
\* seen before included, Follow takes the new suffix within the fetched
\* content: the offset len(last) is at most the length of the content the
\* fetcher returned, and the slice logs[len(last):] never fails.
C39_OffsetWithinContent ==
    /\ fpc # "panicked"
    /\ fetchErr = NoError => Len(last) <= fcut

\* C40: when the polling succeeds, the URL create prints is built from the job
\* the successful GetJob call returned: its number is that job's pull request
\* number, and it has the /agent-sessions/{SessionID} suffix exactly when
\* that job's SessionID is not empty.
C40_URLFromPolledJob ==
    jobWithPR # NoJob =>
        /\ cpc = "returned"
        /\ cerr = NoError
        /\ Len(stdout) = 1
        /\ stdout[1].kind \in {"pull-url", "session-url"}
        /\ stdout[1].number = jobWithPR.PullRequest.Number
        /\ stdout[1].kind = "session-url" <=> jobWithPR.SessionID # ""

\* The created job had a session ID and no pull request; the polled job has
\* pull request 42 and no session ID, and the URL has no suffix.
C40_Witness ==
    /\ cpc = "returned"
    /\ job.SessionID = "sess1"
    /\ job.PullRequest = Nil
    /\ Len(getLog) = 2
    /\ jobWithPR.SessionID = ""
    /\ jobWithPR.PullRequest = [Number |-> 42]
    /\ stdout = <<[NoLine EXCEPT !.kind = "pull-url", !.number = 42]>>

====
